---- MODULE Spec2Model ----
(***************************************************************************)
(* Model of the carpet-shop Telegram bot: the Google-Sheets reconciliation *)
(* job (services/google_sheets) and the progressive filter engine          *)
(* (dao/carpets.py, services/carpet_search).                               *)
(*                                                                         *)
(* Conventions.                                                            *)
(*  - Python None is the string None below; an optional value that is a    *)
(*    record is a sequence of length 0 or 1.                               *)
(*  - Sheet cells are strings, as gspread returns them.  The Cyrillic      *)
(*    column labels and messages of the source are written transliterated  *)
(*    (TLA+ strings are ASCII).                                            *)
(*  - A float is an integer number of 1e-7 units, so the tolerance 1e-6    *)
(*    of has_changes is 10 units.                                          *)
(*  - A table is a bag of rows: the sales table has a surrogate primary    *)
(*    key (sale_id, uuid4), so it can hold several rows with one business  *)
(*    key; the carpets table has carpet_id as its primary key.             *)
(***************************************************************************)
EXTENDS Integers, Sequences, FiniteSets, Bags, TLC

VARIABLES
    service,        \* which service the behaviour runs: "Carpet" or "Sale"
    table,          \* committed contents of the service's table (a bag of rows)
    pc,             \* position of the sync request
    values,         \* what fetch_all returned to sync_data
    session,        \* the table as the request's AsyncSession sees it
    result,         \* the SyncResult returned, <<>> before there is one
    log,            \* the logger.debug lines of the reconciliation loop
    before,         \* the table when the request started (history)
    refetched,      \* <<values>> of the second fetch_all of the carpet sync
    rerun,          \* the request repeats the previous, committed one (history)
    filters,        \* the CarpetFilters the search service is called with
    filter_available_only, \* the flag the CarpetsDAO was constructed with
    view,           \* <<FilterResults>> get_filter_options returned last, or
                    \* <<the data the dialog's window was rendered with>>
    registered,     \* the rows of registered_users
    pending,        \* the rows of pending_users
    banned,         \* the rows of banned_users
    outcome,        \* <<what the last user handler did and answered>>
    runs,           \* the concurrent requests, by task
    dialog_state,   \* the state (window) the user's dialog is in
    dialog_data,    \* dialog_manager.dialog_data but its "filters", a function
    widgets,        \* the checked item ids of the Multiselect widgets, by facet
    sent,           \* the texts the last request answered or edited in, in order
    tasks           \* the asyncio tasks of perform_sync_with_animation

syncVars == <<service, table, pc, values, session, result, log, before, refetched, rerun>>
searchVars == <<filters, filter_available_only, view>>
usersVars == <<registered, pending, banned, outcome>>
dialogVars == <<dialog_state, dialog_data, widgets, sent, tasks>>
vars == <<service, table, pc, values, session, result, log, before, refetched, rerun,
          filters, filter_available_only, view, registered, pending, banned, outcome, runs,
          dialog_state, dialog_data, widgets, sent, tasks>>

\* No dialog is open and no sync animation runs.
NoDialog ==
    /\ dialog_state = "<None>"
    /\ dialog_data = <<>>
    /\ widgets = <<>>
    /\ sent = <<>>
    /\ tasks = <<>>

\* Most data rows of a sheet.
MaxRows == 2

\* Most carpets of a catalog the filter engine is run on.
MaxCarpets == 2

None == "<None>"

Range(s) == {s[i] : i \in 1..Len(s)}

Abs(x) == IF x < 0 THEN -x ELSE x

(***************************************************************************)
(* Schemas: schemas/carpers_from_google_sh.py, schemas/sales_from_google_sh.py *)
(***************************************************************************)

\* Field names of CarpetRowFromGoogleSheets, in declaration order.
CarpetFields ==
    <<"carpet_id", "collection", "geometry", "size", "design", "color_1",
      "color_2", "color_3", "style", "quantity", "base_price">>

\* Field names of SalesFromGoogleSH, in declaration order.
SalesFields ==
    <<"carpet_id", "carpet_design", "carpet_size", "collection", "style",
      "sale_date", "quantity", "payment_method", "basic_price", "sale_price",
      "discount", "note", "sold_to">>

\* Field(..., alias=...) of the carpet schema.
CarpetAlias ==
    [carpet_id |-> "Id Kovra", collection |-> "Kollekciya", geometry |-> "Geometriya",
     size |-> "Razmer", design |-> "Dizain", color_1 |-> "Cvet 1", color_2 |-> "Cvet 2",
     color_3 |-> "Cvet 3", style |-> "Stil", quantity |-> "Kolichestvo, sht",
     base_price |-> "Bazovaya stoimost"]

\* Field(..., alias=...) of the sales schema.
SalesAlias ==
    [carpet_id |-> "Id kovra", carpet_design |-> "Dizain", carpet_size |-> "Razmer",
     collection |-> "Kollekciya", style |-> "Stil", sale_date |-> "Data prodazhi",
     quantity |-> "Kol-vo prodannyh, sht.", payment_method |-> "Tip oplaty",
     basic_price |-> "Cena bazovaya", sale_price |-> "Cena prodazhi",
     discount |-> "Skidka, %", note |-> "Dopolnitelnaya informaciya",
     sold_to |-> "Pokupatel"]

get_schema_fields(s) == IF s = "Carpet" THEN CarpetFields ELSE SalesFields
get_schema_alias(s) == IF s = "Carpet" THEN CarpetAlias ELSE SalesAlias

\* str.strip() on the cells the model uses.
Strip(c) ==
    CASE c = " 1" -> "1"
      [] c = "2 " -> "2"
      [] c = " "  -> ""
      [] OTHER    -> c

\* int(cell) as pydantic's lax int parsing does it: <<n>>, or <<>> when the
\* cell is no integer.
ParseInt(c) ==
    CASE c = "-1" -> <<-1>>
      [] c = "0"  -> <<0>>
      [] c = "1"  -> <<1>>
      [] c = "2"  -> <<2>>
      [] c = "3"  -> <<3>>
      [] c = "5"  -> <<5>>
      [] OTHER    -> <<>>

\* parse_base_price's cleaning (currency sign, spaces, decimal comma) and
\* float(): <<units of 1e-7>>, or <<>> when float() raises.
ParseFloat(c) ==
    CASE c = "10"            -> <<100000000>>
      [] c = "10 RUB"        -> <<100000000>>
      [] c = "10,0000005"    -> <<100000005>>
      [] c = "10.000002"     -> <<100000020>>
      [] c = "0"             -> <<0>>
      [] c = "5"             -> <<50000000>>
      [] c = "5,0000005"     -> <<50000005>>
      [] OTHER               -> <<>>

\* normalize_size: casefold, drop spaces, decimal comma, one separator x,
\* both parts decimal numbers, trailing zeros dropped: <<"WxH">> or <<>>.
NormalizeSize(c) ==
    CASE c = "2x3"      -> <<"2x3">>
      [] c = "2,0 X 3"  -> <<"2x3">>
      [] c = "1.5x2"    -> <<"1.5x2">>
      [] OTHER          -> <<>>

\* _format_color: every token capitalised; <<>> when a token does not start
\* with a letter.
FormatColor(c) ==
    CASE c = "red"   -> <<"Red">>
      [] c = "Red"   -> <<"Red">>
      [] c = "BLUE"  -> <<"Blue">>
      [] c = "Blue"  -> <<"Blue">>
      [] c = "Green" -> <<"Green">>
      [] OTHER       -> <<>>

\* date.fromisoformat as pydantic applies it to a cell.
ParseDate(c) ==
    CASE c = "2024-01-15" -> <<"2024-01-15">>
      [] c = "2024-02-01" -> <<"2024-02-01">>
      [] OTHER            -> <<>>

\* PaymentMethod(StrEnum) values.
PaymentMethod == {"Beznalichnyi", "Bank", "Nalichnyi", "Kartoi"}


(***************************************************************************)
(* Row parsing: services/google_sheets/utils.py                            *)
(***************************************************************************)

\* idx = {name: i for i, name in enumerate(header)}: the last column with the
\* label wins.
HeaderIndex(header, name) ==
    CHOOSE i \in 1..Len(header) :
        header[i] = name /\ \A j \in (i + 1)..Len(header) : header[j] # name

\* The dict `data` built for one raw row: the schema fields whose alias is a
\* column of the header, each with its stripped cell, or None when the row is
\* shorter than the header.  (Keyed by field name here, by alias in the code.)
RowData(s, header, raw_data) ==
    LET alias == get_schema_alias(s)
        present == {f \in Range(get_schema_fields(s)) : alias[f] \in Range(header)}
    IN  [f \in present |->
            LET i == HeaderIndex(header, alias[f])
            IN  IF i <= Len(raw_data) THEN Strip(raw_data[i]) ELSE None]

Missing(data, f) == f \notin DOMAIN data
Blank(data, f) == data[f] = None \/ data[f] = ""

\* parse_base_price, then the float field, then base_price_not_negative /
\* price_positive: the message of the first failure, "" when the cell is valid.
PriceError(data, f) ==
    CASE Missing(data, f)           -> "Field required"
      [] Blank(data, f)             -> "Bazovaya stoimost otsutstvuet"
      [] ParseFloat(data[f]) = <<>> -> "Ne udalos preobrazovat bazovuyu stoimost v chislo"
      [] ParseFloat(data[f])[1] <= 0 -> "Stoimost dolzhna byt bolshe 0"
      [] OTHER                      -> ""

\* normalize_size (mode="before") of both schemas.
SizeError(data, f) ==
    CASE Missing(data, f)              -> "Field required"
      [] Blank(data, f)                -> "Razmer otsutstvuet"
      [] NormalizeSize(data[f]) = <<>> -> "Razmer dolzhen soderzhat odin razdelitel x"
      [] OTHER                         -> ""

\* An `int` field of the schema.
IntError(data, f) ==
    CASE Missing(data, f)         -> "Field required"
      [] data[f] = None           -> "Input should be a valid integer"
      [] ParseInt(data[f]) = <<>> -> "Input should be a valid integer, unable to parse"
      [] OTHER                    -> ""

\* The cell parses as an integer and a field validator rejects it as too small.
IntBelow(data, f, min) ==
    /\ ~Missing(data, f)
    /\ ParseInt(data[f]) # <<>>
    /\ ParseInt(data[f])[1] < min

\* A required `str` field of the schema (an empty cell is a valid str).
StrError(data, f) ==
    CASE Missing(data, f) -> "Field required"
      [] data[f] = None   -> "Input should be a valid string"
      [] OTHER            -> ""

\* normalize_color for color_1 (required) and color_2, color_3 (optional).
ColorError(data, f) ==
    CASE Missing(data, f)            -> IF f = "color_1" THEN "Field required" ELSE ""
      [] Blank(data, f)              -> IF f = "color_1" THEN "Cvet 1 obyazatelen" ELSE ""
      [] FormatColor(data[f]) = <<>> -> "Cvet dolzhen nachinatsya s zaglavnoi bukvy"
      [] OTHER                       -> ""

ColorValue(data, f) ==
    IF Missing(data, f) \/ Blank(data, f) THEN None ELSE FormatColor(data[f])[1]

\* The field validators of CarpetRowFromGoogleSheets.
CarpetFieldError(data, f) ==
    CASE f = "carpet_id"  -> IntError(data, f)
      [] f = "size"       -> SizeError(data, f)
      [] f \in {"color_1", "color_2", "color_3"} -> ColorError(data, f)
      [] f = "quantity"   ->
            IF IntBelow(data, f, 0) THEN "Kolichestvo ne mozhet byt otricatelnym"
            ELSE IntError(data, f)
      [] f = "base_price" -> PriceError(data, f)
      [] OTHER            -> StrError(data, f)

\* ensure_color_present (model validator, mode="before").
ensure_color_present(data) ==
    \E f \in {"color_1", "color_2", "color_3"} : ~Missing(data, f) /\ ~Blank(data, f)

\* ensure_unique_colors (model validator, mode="after").
ensure_unique_colors(c1, c2, c3) ==
    /\ c2 # None => c2 # c1
    /\ c3 # None => (c3 # c1 /\ c3 # c2)

HasMessage(e) == e.msg # ""

\* The errors of the field validators, in field order.
CarpetFieldErrors(data) ==
    SelectSeq([i \in 1..Len(CarpetFields) |->
                  [loc |-> CarpetFields[i], msg |-> CarpetFieldError(data, CarpetFields[i])]],
              HasMessage)

\* The model instance once every field validated.
CarpetRowOf(data) ==
    [carpet_id |-> ParseInt(data.carpet_id)[1],
     collection |-> data.collection,
     geometry |-> data.geometry,
     size |-> NormalizeSize(data.size)[1],
     design |-> data.design,
     color_1 |-> ColorValue(data, "color_1"),
     color_2 |-> ColorValue(data, "color_2"),
     color_3 |-> ColorValue(data, "color_3"),
     style |-> data.style,
     quantity |-> ParseInt(data.quantity)[1],
     base_price |-> ParseFloat(data.base_price)[1]]

\* The model validator that runs after the fields.
CarpetAfter(row) ==
    IF ensure_unique_colors(row.color_1, row.color_2, row.color_3)
    THEN [errors |-> <<>>, row |-> <<row>>]
    ELSE [errors |-> <<[loc |-> "", msg |-> "Cveta u odnogo kovra ne dolzhny povtoryatsya"]>>,
          row |-> <<>>]

CarpetFieldsChecked(data, errors) ==
    IF errors # <<>> THEN [errors |-> errors, row |-> <<>>]
    ELSE CarpetAfter(CarpetRowOf(data))

\* CarpetRowFromGoogleSheets(**data): the validated row, or the errors of the
\* ValidationError (loc is the field name, "" for a model-level error).
ValidateCarpet(data) ==
    IF ~ensure_color_present(data)
    THEN [errors |-> <<[loc |-> "", msg |-> "Dolzhen byt ukazan hotya by odin cvet"]>>,
          row |-> <<>>]
    ELSE CarpetFieldsChecked(data, CarpetFieldErrors(data))

\* parse_discount and discount_range_from_zero_to_hundred.
DiscountError(data, f) ==
    CASE Missing(data, f) \/ Blank(data, f) -> ""
      [] ParseFloat(data[f]) = <<>> -> "Ne udalos preobrazovat skidku v chislovoi format"
      [] ParseFloat(data[f])[1] < 0 \/ ParseFloat(data[f])[1] > 1000000000 ->
            "Diapazon skidki ot 0 do 100%"
      [] OTHER -> ""

DiscountValue(data, f) ==
    IF Missing(data, f) \/ Blank(data, f) THEN 0 ELSE ParseFloat(data[f])[1]

\* An optional `str | None` field: its cell, None when unset.
OptionalValue(data, f) == IF Missing(data, f) THEN None ELSE data[f]

\* The field validators of SalesFromGoogleSH.
SalesFieldError(data, f) ==
    CASE f = "carpet_id"   -> IntError(data, f)
      [] f = "carpet_design" -> StrError(data, f)
      [] f = "carpet_size" -> SizeError(data, f)
      [] f = "sale_date"   ->
            CASE Missing(data, f) -> "Field required"
              [] Blank(data, f) \/ ParseDate(data[f]) = <<>> -> "Input should be a valid date"
              [] OTHER -> ""
      [] f = "quantity"    ->
            IF IntBelow(data, f, 1) THEN "Kol-vo prodannyh dolzhno byt > 0"
            ELSE IntError(data, f)
      [] f = "payment_method" ->
            CASE Missing(data, f) -> "Field required"
              [] data[f] \notin PaymentMethod -> "Input should be a PaymentMethod"
              [] OTHER -> ""
      [] f \in {"basic_price", "sale_price"} -> PriceError(data, f)
      [] f = "discount"    -> DiscountError(data, f)
      [] OTHER             -> ""

SalesFieldErrors(data) ==
    SelectSeq([i \in 1..Len(SalesFields) |->
                  [loc |-> SalesFields[i], msg |-> SalesFieldError(data, SalesFields[i])]],
              HasMessage)

SalesRowOf(data) ==
    [carpet_id |-> ParseInt(data.carpet_id)[1],
     carpet_design |-> data.carpet_design,
     carpet_size |-> NormalizeSize(data.carpet_size)[1],
     collection |-> OptionalValue(data, "collection"),
     style |-> OptionalValue(data, "style"),
     sale_date |-> ParseDate(data.sale_date)[1],
     quantity |-> ParseInt(data.quantity)[1],
     payment_method |-> data.payment_method,
     basic_price |-> ParseFloat(data.basic_price)[1],
     sale_price |-> ParseFloat(data.sale_price)[1],
     discount |-> DiscountValue(data, "discount"),
     note |-> OptionalValue(data, "note"),
     sold_to |-> OptionalValue(data, "sold_to")]

SalesFieldsChecked(data, errors) ==
    IF errors # <<>> THEN [errors |-> errors, row |-> <<>>]
    ELSE [errors |-> <<>>, row |-> <<SalesRowOf(data)>>]

\* SalesFromGoogleSH(**data).
ValidateSales(data) == SalesFieldsChecked(data, SalesFieldErrors(data))

\* model(**data) for the service's schema.
ValidateRow(s, data) == IF s = "Carpet" THEN ValidateCarpet(data) ELSE ValidateSales(data)

\* enumerate(rows, start=2): the sheet row number of the i-th data row.
RowNumberFromOne(i) == i

RowNumber(i) == i + 1

\* passed_values.append(...) or failed_values.append({...}) for data row i.
AddParsed(acc, i, raw_data, v) ==
    IF v.row # <<>>
    THEN [acc EXCEPT !.valid_rows = Append(@, v.row[1])]
    ELSE [acc EXCEPT !.invalid_rows =
            Append(@, [row |-> RowNumber(i), errors |-> v.errors, raw_data |-> raw_data])]

\* parse_table_from_google_sheets: (passed_values, failed_values).
RECURSIVE ParseFrom(_, _, _, _, _)
ParseFrom(s, header, rows, i, acc) ==
    IF i > Len(rows) THEN acc
    ELSE ParseFrom(s, header, rows, i + 1,
            AddParsed(acc, i, rows[i], ValidateRow(s, RowData(s, header, rows[i]))))

parse_table_from_google_sheets(s, rows, header) ==
    ParseFrom(s, header, rows, 1, [valid_rows |-> <<>>, invalid_rows |-> <<>>])


(***************************************************************************)
(* The reconciliation job: services/google_sheets/base_service.py,         *)
(* carpets_service.py, sales_service.py                                    *)
(***************************************************************************)

\* 1e-6, the tolerance of has_changes, in units of 1e-7.
Tolerance == 10

get_entity_name(s) == s

\* `x or None` / `x or "Unknown"`: the value, or the default when it is falsy.
OrDefault(x, default) == IF x = None \/ x = "" THEN default ELSE x

\* row_to_payload of the two services.
CarpetRowToPayload(row) ==
    [carpet_id |-> row.carpet_id, collection |-> row.collection,
     geometry |-> row.geometry, size |-> row.size, design |-> row.design,
     color_1 |-> row.color_1, color_2 |-> OrDefault(row.color_2, None),
     color_3 |-> OrDefault(row.color_3, None), style |-> row.style,
     quantity |-> row.quantity, price |-> row.base_price]

SalesRowToPayload(row) ==
    [carpet_id |-> row.carpet_id, sale_date |-> row.sale_date,
     quantity |-> row.quantity, payment_method |-> row.payment_method,
     basic_price |-> row.basic_price, sale_price |-> row.sale_price,
     discount |-> row.discount, sold_to |-> OrDefault(row.sold_to, "Unknown")]

row_to_payload(s, row) ==
    IF s = "Carpet" THEN CarpetRowToPayload(row) ELSE SalesRowToPayload(row)

\* extract_key_from_payload: the business key.
extract_key_from_payload(s, payload) ==
    IF s = "Carpet" THEN <<payload.carpet_id>>
    ELSE <<payload.carpet_id, payload.sale_date, payload.sold_to>>

\* The key load_existing_records files a stored row under.
RecordKey(s, record) ==
    IF s = "Carpet" THEN <<record.carpet_id>>
    ELSE <<record.carpet_id, record.sale_date, record.sold_to>>

\* create_entity: Carpet(**payload) / SalesData(**payload).  The columns the
\* database fills in itself (timestamps, sale_id) are not modelled.
create_entity(s, payload) == payload

\* The fields has_changes compares with the tolerance.
FloatFields(s) ==
    IF s = "Carpet" THEN {"price"} ELSE {"basic_price", "sale_price", "discount"}

FieldChangedExact(s, field, current_value, new_value) == current_value # new_value

\* One field of has_changes.  Both values are floats (the columns are NOT
\* NULL and the payload holds float(...)), so of the three tests of a float
\* field only the tolerance test can fire.
FieldChanged(s, field, current_value, new_value) ==
    IF field \in FloatFields(s)
    THEN Abs(current_value - new_value) > Tolerance
    ELSE current_value # new_value

\* has_changes(entity, payload).
has_changes(s, record, payload) ==
    \E field \in DOMAIN payload : FieldChanged(s, field, record[field], payload[field])

KeepRecord(record, payload) == record

\* for field, value in payload.items(): setattr(record, field, value)
ApplyPayload(record, payload) ==
    [f \in DOMAIN record |-> IF f \in DOMAIN payload THEN payload[f] ELSE record[f]]

\* load_existing_records: every dict {key: row} the SELECT can produce.  When
\* several stored rows share a key the dict keeps the one the query returned
\* last, and the query has no ORDER BY.
load_existing_records(s, tbl) ==
    LET rows == BagToSet(tbl)
        keys == {RecordKey(s, r) : r \in rows}
    IN  {d \in [keys -> rows] : \A k \in keys : RecordKey(s, d[k]) = k}

BagOf(x) == SetToBag({x})

LogLine(event, key, record, payload) ==
    [event |-> event, key |-> key, record |-> record, payload |-> payload]

\* The body of the loop of sync_data for one row with an existing record.
ReconcileExisting(s, st, payload, key, record) ==
    IF has_changes(s, record, payload)
    THEN [st EXCEPT !.session = (@ (-) BagOf(record)) (+) BagOf(ApplyPayload(record, payload)),
                    !.existing_records[key] = ApplyPayload(record, payload),
                    !.updated = @ + 1,
                    !.log = Append(@, LogLine("update", key, <<record>>, payload))]
    ELSE [st EXCEPT !.skipped = @ + 1,
                    !.log = Append(@, LogLine("skip", key, <<record>>, payload))]

\* The body of the loop of sync_data for one row.
ReconcileRow(s, st, payload, key) ==
    IF key \notin DOMAIN st.existing_records
    THEN [st EXCEPT !.session = @ (+) BagOf(create_entity(s, payload)),
                    !.inserted = @ + 1,
                    !.log = Append(@, LogLine("insert", key, <<>>, payload))]
    ELSE ReconcileExisting(s, st, payload, key, st.existing_records[key])

ReconcilePayload(s, st, payload) ==
    ReconcileRow(s, st, payload, extract_key_from_payload(s, payload))

\* The loop `for row in valid_rows` of sync_data, from row i on.  st holds the
\* dict existing_records, the session's view of the table, the three
\* counters and the debug lines logged so far (with the record and payload
\* the row was compared on).
RECURSIVE ReconcileFrom(_, _, _, _)
ReconcileFrom(s, valid_rows, i, st) ==
    IF i > Len(valid_rows) THEN st
    ELSE ReconcileFrom(s, valid_rows, i + 1,
            ReconcilePayload(s, st, row_to_payload(s, valid_rows[i])))

\* SyncResult(...).  invalid_report is a sequence of lines; None is <<>>
\* (every report string the code builds has at least one line).
SyncResult(entity_name, total_rows, inserted, updated, skipped, bad_data, deleted, invalid_report) ==
    [entity_name |-> entity_name, total_rows |-> total_rows, inserted |-> inserted,
     updated |-> updated, skipped |-> skipped, bad_data |-> bad_data,
     deleted |-> deleted, invalid_report |-> invalid_report]

Line(kind, row, text) == [kind |-> kind, row |-> row, text |-> text]

\* "V tablice netu dannyh."
NoDataReport == <<Line("no_data", 0, <<"V tablice netu dannyh.">>)>>
\* "V tablice otsutstvuet stroka zagolovkov."
NoHeaderReport == <<Line("no_header", 0, <<"V tablice otsutstvuet stroka zagolovkov.">>)>>

\* The two lines _build_invalid_report writes for one invalid row.
InvalidRowLines(s, item) ==
    LET alias == get_schema_alias(s)
        aliasOf(loc) == IF loc = "" THEN "unknown"
                        ELSE IF loc \in DOMAIN alias THEN alias[loc] ELSE loc
        messages == [i \in 1..Len(item.errors) |->
                        <<aliasOf(item.errors[i].loc), item.errors[i].msg>>]
        cells == SelectSeq(item.raw_data, LAMBDA cell : cell # "")
    IN  << Line("row", item.row, messages),
           Line("data", item.row, IF cells = <<>> THEN <<"pustaya stroka">> ELSE cells) >>

RECURSIVE InvalidLinesFrom(_, _, _)
InvalidLinesFrom(s, invalid_rows, i) ==
    IF i > Len(invalid_rows) THEN <<>>
    ELSE InvalidRowLines(s, invalid_rows[i]) \o InvalidLinesFrom(s, invalid_rows, i + 1)

\* _build_invalid_report.
build_invalid_report(s, invalid_rows) ==
    IF invalid_rows = <<>> THEN <<>>
    ELSE <<Line("heading", 0, <<get_entity_name(s)>>)>> \o InvalidLinesFrom(s, invalid_rows, 1)

\* total_rows = len(valid_rows) + len(invalid_rows)
TotalRows(valid_rows, invalid_rows) == Len(valid_rows) + Len(invalid_rows)

BadDataLessSkipped(total_rows, inserted, updated, skipped) == total_rows - inserted - updated

\* bad_data = total_rows - inserted - updated - skipped
BadData(total_rows, inserted, updated, skipped) == total_rows - inserted - updated - skipped

\* The return of sync_data after the loop.
SyncSummary(s, total_rows, invalid_report, st) ==
    [result |-> SyncResult(get_entity_name(s), total_rows, st.inserted, st.updated,
                           st.skipped,
                           BadData(total_rows, st.inserted, st.updated, st.skipped),
                           0, invalid_report),
     session |-> st.session, log |-> st.log]

SyncValidatedCounts(s, sess, existing_records, parsed, invalid_report) ==
    SyncSummary(s, TotalRows(parsed.valid_rows, parsed.invalid_rows), invalid_report,
        ReconcileFrom(s, parsed.valid_rows, 1,
            [existing_records |-> existing_records, session |-> sess,
             inserted |-> 0, updated |-> 0, skipped |-> 0, log |-> <<>>]))

\* sync_data from `if not valid_rows` on.
SyncValidated(s, sess, existing_records, parsed, invalid_report) ==
    IF parsed.valid_rows = <<>>
    THEN [result |-> SyncResult(get_entity_name(s), 0, 0, 0, 0, 0, 0, invalid_report),
          session |-> sess, log |-> <<>>]
    ELSE SyncSummary(s, TotalRows(parsed.valid_rows, parsed.invalid_rows), invalid_report,
            ReconcileFrom(s, parsed.valid_rows, 1,
                [existing_records |-> existing_records, session |-> sess,
                 inserted |-> 0, updated |-> 0, skipped |-> 0, log |-> <<>>]))

\* sync_data from the call of _build_invalid_report on.
SyncParsed(s, sess, existing_records, parsed) ==
    SyncValidated(s, sess, existing_records, parsed,
                  build_invalid_report(s, parsed.invalid_rows))

\* BaseGoogleSheetsService.sync_data once fetch_all has returned vals:
\* existing_records is what load_existing_records returns when it is called.
\* Gives the SyncResult, the session's view of the table and the debug log.
BaseSyncData(s, vals, sess, existing_records) ==
    IF vals = <<>>
    THEN [result |-> SyncResult(get_entity_name(s), 0, 0, 0, 0, 0, 0, NoDataReport),
          session |-> sess, log |-> <<>>]
    ELSE IF Head(vals) = <<>>
    THEN [result |-> SyncResult(get_entity_name(s), 0, 0, 0, 0, 0, 0, NoHeaderReport),
          session |-> sess, log |-> <<>>]
    ELSE SyncParsed(s, sess, existing_records,
                    parse_table_from_google_sheets(s, Tail(vals), Head(vals)))

\* carpet_ids_to_delete of the carpet sync: the keys of the table as the
\* session sees it, minus the ids of the valid rows of the second fetch.
CarpetIdsToDelete(sess, valid_rows) ==
    {r.carpet_id : r \in BagToSet(sess)} \ {valid_rows[i].carpet_id : i \in 1..Len(valid_rows)}

\* The DELETE of the carpet sync and the SyncResult it returns; rowcount is
\* the number of rows the statement removed.
DeleteCarpets(res, sess, kept) ==
    [result |-> SyncResult(res.entity_name, res.total_rows, res.inserted, res.updated,
                           res.skipped, res.bad_data,
                           BagCardinality(sess) - BagCardinality(kept), res.invalid_report),
     session |-> kept]

KeepCarpets(sess, carpet_ids_to_delete) ==
    [r \in {x \in BagToSet(sess) : x.carpet_id \notin carpet_ids_to_delete} |-> sess[r]]

\* GoogleSheetsCarpetService.sync_data after super().sync_data() returned
\* res with total_rows # 0 and the session was flushed: vals2 is what the
\* second fetch_all returns.
CarpetDeletion(res, sess, vals2) ==
    IF vals2 = <<>> \/ Len(vals2) < 2
    THEN [result |-> res, session |-> sess]
    ELSE DeleteCarpets(res, sess,
            KeepCarpets(sess,
                CarpetIdsToDelete(sess,
                    parse_table_from_google_sheets("Carpet", Tail(vals2), Head(vals2)).valid_rows)))

\* sync_carpets: the wrapper the admin menu calls.
sync_carpets(res) ==
    SyncResult(res.entity_name, res.total_rows, res.inserted, res.updated, res.skipped,
               res.bad_data, res.deleted, res.invalid_report)

\* sync_sales: the wrapper the admin menu calls (deleted keeps its default 0).
sync_sales(res) ==
    SyncResult(res.entity_name, res.total_rows, res.inserted, res.updated, res.skipped,
               res.bad_data, 0, res.invalid_report)

\* Flushing the session succeeds unless two carpets have one carpet_id (the
\* primary key); the sales table has no constraint on the business key.
FlushOk(s, sess) ==
    s = "Carpet" =>
        \A r \in BagToSet(sess) :
            /\ sess[r] = 1
            /\ \A q \in BagToSet(sess) : q.carpet_id = r.carpet_id => q = r


(***************************************************************************)
(* The sheets a fetch can return                                           *)
(***************************************************************************)

\* The header row of a sheet that has every column of the schema.
FullHeader(s) ==
    LET fields == get_schema_fields(s)
    IN  [i \in 1..Len(fields) |-> get_schema_alias(s)[fields[i]]]

\* A carpet row: id, collection, geometry, size, design, three colours,
\* style, quantity, price.
CarpetCells(id, quantity, price) ==
    <<id, "Persia", "Rect", "2,0 X 3", "Vintage", "red", "BLUE", "", "Modern", quantity, price>>

\* A sales row: id, design, size, collection, style, date, quantity, payment,
\* basic price, sale price, discount, note, buyer.
SalesCells(id, quantity, sale_price, discount) ==
    <<id, "Vintage", "2x3", "", "", "2024-01-15", quantity, "Nalichnyi", "10",
      sale_price, discount, "", "">>

\* The data rows a sheet is made of: for id 1 a base row, one whose float is
\* 5e-8 away, one whose float is 2e-6 away and (carpets) one with another
\* quantity; a row of id 2; a row that fails validation.
RowPool(s) ==
    IF s = "Carpet"
    THEN {CarpetCells("1", "1", "10"), CarpetCells("1", "1", "10,0000005"),
          CarpetCells("1", "2", "10"), CarpetCells("1", "1", "10.000002"),
          CarpetCells("2 ", "1", "10 RUB"), CarpetCells("1", "-1", "10")}
    ELSE {SalesCells("1", "1", "10", "5"), SalesCells("1", "1", "10", "5,0000005"),
          SalesCells("1", "1", "10.000002", "5"), SalesCells("2 ", "1", "10 RUB", ""),
          SalesCells("1", "0", "10", "5")}

SeqsUpTo(S, n) == UNION {[1..k -> S] : k \in 0..n}

\* Sheets whose header lacks a column, or whose row is shorter than the header.
SpecialSheets(s) ==
    IF s = "Carpet"
    THEN { \* no column "Cvet 3": the field keeps its default
           << <<"Id Kovra", "Kollekciya", "Geometriya", "Razmer", "Dizain", "Cvet 1",
                "Cvet 2", "Stil", "Kolichestvo, sht", "Bazovaya stoimost">>,
              <<"1", "Persia", "Rect", "2x3", "Vintage", "Red", "Blue", "Modern", "1", "10">> >>,
           \* the row ends before the price column
           << FullHeader(s),
              <<"1", "Persia", "Rect", "2x3", "Vintage", "Red", "Blue", "", "Modern", "1">> >> }
    ELSE { \* no column "Skidka, %": the field keeps its default 0.0
           << <<"Id kovra", "Dizain", "Razmer", "Data prodazhi", "Kol-vo prodannyh, sht.",
                "Tip oplaty", "Cena bazovaya", "Cena prodazhi">>,
              <<"2", "Vintage", "2x3", "2024-01-15", "1", "Nalichnyi", "10", "10">> >>,
           \* the row ends before the sale price column
           << FullHeader(s),
              <<"1", "Vintage", "2x3", "", "", "2024-01-15", "1", "Nalichnyi", "10">> >> }

\* What fetch_all can return: nothing, an empty header row (alone or above a
\* row), or a header and up to MaxRows data rows.
Sheets(s) ==
    {<<>>, << <<>> >>} \cup {<< <<>>, r >> : r \in RowPool(s)}
        \cup {<<FullHeader(s)>> \o rows : rows \in SeqsUpTo(RowPool(s), MaxRows)}
        \cup SpecialSheets(s)

\* What the second fetch_all of the carpet sync can return when the first
\* returned v: the same sheet, or the sheet as somebody edited it in between
\* (emptied, last or first data row removed, header row cleared).
SheetEdits(v) ==
    {v, <<>>}
        \cup (IF Len(v) >= 2
              THEN {SubSeq(v, 1, Len(v) - 1), <<Head(v)>> \o SubSeq(v, 3, Len(v)),
                    << <<>> >> \o Tail(v)}
              ELSE {})

(***************************************************************************)
(* The filter engine: dao/carpets.py, services/carpet_search               *)
(***************************************************************************)

Facets == {"geometry", "size", "color", "style", "collection"}

\* CarpetFilters(): every facet's selection empty.  A selection is a list
\* the engine only tests for emptiness and membership: it is a set here.
EmptyFilters == [f \in Facets |-> {}]

\* The strings of the catalogs in the order sorted() puts them.
ValueOrder ==
    <<"1.5x2", "2x3", "A", "B", "Blue", "Classic", "Green", "Modern", "Oval", "Rect", "Red">>

\* filters.get(k): None for a missing key.
FilterGet(filters_dict, k) == IF k \in DOMAIN filters_dict THEN filters_dict[k] ELSE {}

NoFilterConditions(filters_dict, c) == TRUE

\* _build_filter_conditions(filters_dict), as the predicate and_(*conditions) is
\* on a row c.  A comparison with a NULL colour is not true.
build_filter_conditions(filters_dict, c) ==
    /\ \A field_name \in {"geometry", "size", "style", "collection"} :
          FilterGet(filters_dict, field_name) # {} => c[field_name] \in FilterGet(filters_dict, field_name)
    /\ FilterGet(filters_dict, "color") # {} =>
          \E color \in FilterGet(filters_dict, "color") :
              c.color_1 = color \/ c.color_2 = color \/ c.color_3 = color

AvailableAny(flag, c) == TRUE

\* `if self.filter_available_only: conditions.append(Carpet.quantity > 0)`.
Available(flag, c) == flag => c.quantity > 0

\* The rows one grouped query of _get_field_counts or _get_color_counts
\* reads: field is not NULL, the conditions hold.  carpet_id is the primary
\* key, so the rows of the table are distinct.
CountedRows(tbl, flag, field, conditions) ==
    {c \in BagToSet(tbl) : /\ c[field] # None
                           /\ build_filter_conditions(conditions, c)
                           /\ Available(flag, c)}

\* Rows per value of a grouped query: value -> count.
GroupBy(rows, field) ==
    [v \in {c[field] : c \in rows} |-> Cardinality({c \in rows : c[field] = v})]

\* color_counts.get(color_value, 0).
CountOf(counts, v) == IF v \in DOMAIN counts THEN counts[v] ELSE 0

MergeFirstOnly(r1, r2, r3) == r1

\* The merge of the three grouped results of _get_color_counts.
MergeCounts(r1, r2, r3) ==
    [v \in DOMAIN r1 \cup DOMAIN r2 \cup DOMAIN r3 |->
        CountOf(r1, v) + CountOf(r2, v) + CountOf(r3, v)]

\* _get_color_counts: counts over the three colour columns.
get_color_counts(tbl, flag, conditions) ==
    MergeCounts(GroupBy(CountedRows(tbl, flag, "color_1", conditions), "color_1"),
                GroupBy(CountedRows(tbl, flag, "color_2", conditions), "color_2"),
                GroupBy(CountedRows(tbl, flag, "color_3", conditions), "color_3"))

\* _get_field_counts.
get_field_counts(tbl, flag, field_name, conditions) ==
    GroupBy(CountedRows(tbl, flag, field_name, conditions), field_name)

InCounts(counts, order) == SelectSeq(order, LAMBDA v : v \in DOMAIN counts)

\* sorted(values_with_counts, key=lambda x: x[0]).
SortedByValue(counts, vs) == [i \in 1..Len(vs) |-> <<vs[i], counts[vs[i]]>>]

FiltersWithCurrent(existing_filters, field_name) == existing_filters

\* filters_without_current of get_filtered_unique_values.
FiltersWithoutCurrent(existing_filters, field_name) ==
    [k \in DOMAIN existing_filters \ {field_name} |-> existing_filters[k]]

ValuesWithCounts(tbl, flag, field_name, conditions) ==
    IF field_name = "color" THEN get_color_counts(tbl, flag, conditions)
    ELSE get_field_counts(tbl, flag, field_name, conditions)

Sorted(counts) == SortedByValue(counts, InCounts(counts, ValueOrder))

\* CarpetsDAO.get_filtered_unique_values.  raised names the exception that
\* leaves it, None when it returns.  The three colour queries are awaited
\* with asyncio.gather on the one AsyncSession of the DAO, a use the session
\* does not support: gathered tells whether they went through.
get_filtered_unique_values(tbl, flag, field_name, existing_filters, gathered) ==
    IF field_name \notin Facets
    THEN [raised |-> "ValueError", values |-> <<>>]
    ELSE IF field_name = "color" /\ ~gathered
    THEN [raised |-> "SQLAlchemyError", values |-> <<>>]
    ELSE [raised |-> None,
          values |-> Sorted(ValuesWithCounts(tbl, flag, field_name,
                                FiltersWithoutCurrent(existing_filters, field_name)))]

\* CarpetsDAO.count_filtered_carpets.
count_filtered_carpets(tbl, flag, filters_dict) ==
    Cardinality({c \in BagToSet(tbl) : build_filter_conditions(filters_dict, c) /\ Available(flag, c)})

\* CarpetsDAO.search_carpets with the limit of 50 and the offset of 0 of its
\* callers, which no catalog here reaches: the rows the SELECT returns (in
\* no stated order).
search_carpets(tbl, flag, filters_dict) ==
    {c \in BagToSet(tbl) : build_filter_conditions(filters_dict, c) /\ Available(flag, c)}

FilterOption(value, count, selected) ==
    [value |-> value, count |-> count, selected |-> selected]

FilterResults(options, total_carpets, filter_type) ==
    [options |-> options, total_carpets |-> total_carpets, filter_type |-> filter_type]

\* The options of get_filter_options; getattr(current_filters, filter_type, []).
Options(options_with_counts, current_selections) ==
    [i \in 1..Len(options_with_counts) |->
        FilterOption(options_with_counts[i][1], options_with_counts[i][2],
                     options_with_counts[i][1] \in current_selections)]

OptionsFound(tbl, flag, filter_type, current_filters, found) ==
    IF found.raised # None
    THEN FilterResults(<<>>, 0, filter_type)
    ELSE FilterResults(Options(found.values, FilterGet(current_filters, filter_type)),
                       count_filtered_carpets(tbl, flag, current_filters), filter_type)

\* CarpetSearchService.get_filter_options: every exception is caught and
\* answered with no options and a total of 0.
get_filter_options(tbl, flag, filter_type, current_filters, gathered) ==
    OptionsFound(tbl, flag, filter_type, current_filters,
        get_filtered_unique_values(tbl, flag, filter_type, current_filters, gathered))

\* CarpetSearchService.update_filter_selection for a valid filter_type.
update_filter_selection(current_filters, filter_type, selected_values) ==
    [current_filters EXCEPT ![filter_type] = selected_values]

ClearFilterAll(current_filters, filter_type) == EmptyFilters

\* CarpetFilters.clear_filter.
clear_filter(current_filters, filter_type) ==
    IF filter_type \in Facets THEN [current_filters EXCEPT ![filter_type] = {}]
    ELSE current_filters

\* CarpetFilters.clear_all.
clear_all(current_filters) == [f \in DOMAIN current_filters |-> {}]

\* Carpets as the sync stores them, to build catalogs of.
Carpet(id, collection, geometry, size, color_1, color_2, style, quantity) ==
    [carpet_id |-> id, collection |-> collection, geometry |-> geometry, size |-> size,
     design |-> "D", color_1 |-> color_1, color_2 |-> color_2, color_3 |-> None,
     style |-> style, quantity |-> quantity, price |-> 100000000]

CarpetPool ==
    {Carpet(1, "A", "Rect", "2x3", "Red", "Blue", "Modern", 1),
     Carpet(2, "A", "Oval", "2x3", "Blue", None, "Classic", 0),
     [Carpet(3, "B", "Rect", "1.5x2", "Green", "Red", "Modern", 2) EXCEPT !.color_3 = "Red"]}

Catalogs ==
    {SetToBag(S) : S \in {T \in SUBSET CarpetPool : Cardinality(T) <= MaxCarpets}}

\* The values a caller selects for a facet.
Selectable(f) ==
    CASE f = "geometry"   -> {"Rect", "Oval"}
      [] f = "size"       -> {"2x3"}
      [] f = "color"      -> {"Red", "Blue"}
      [] f = "style"      -> {"Modern", "Classic"}
      [] f = "collection" -> {"A"}

(***************************************************************************)
(* The sync request: bot/handlers/admin_menu.py perform_actual_sync,       *)
(* database/connection.py get_session                                      *)
(***************************************************************************)

InitSearch ==
    /\ filters = EmptyFilters
    /\ filter_available_only = TRUE
    /\ view = <<>>

Init ==
    /\ service \in {"Carpet", "Sale"}
    /\ table = EmptyBag
    /\ pc = "idle"
    /\ values = <<>>
    /\ session = EmptyBag
    /\ result = <<>>
    /\ log = <<>>
    /\ before = EmptyBag
    /\ refetched = <<>>
    /\ rerun = FALSE
    /\ InitSearch
    /\ registered = {} /\ pending = {} /\ banned = {}
    /\ outcome = <<>>
    /\ runs = <<>>
    /\ NoDialog

\* The admin confirms a sync: get_session opens a session and sync_data
\* awaits fetch_all.
FetchSheet ==
    /\ pc \in {"idle", "done", "failed"}
    /\ \E v \in Sheets(service) :
        /\ values' = v
        /\ rerun' = (pc = "done" /\ v = values /\ refetched \in {<<>>, <<v>>})
    /\ pc' = "fetched"
    /\ session' = table
    /\ before' = table
    /\ result' = <<>>
    /\ log' = <<>>
    /\ refetched' = <<>>
    /\ UNCHANGED <<service, table>>
    /\ UNCHANGED <<searchVars, usersVars, runs, dialogVars>>

\* sync_data hands out to its caller: the sales service and the carpet sync
\* whose result has total_rows = 0 return, through their wrapper; the carpet
\* sync goes on to its deletion step otherwise.
BaseReturns(out) ==
    /\ session' = out.session
    /\ log' = out.log
    /\ IF service = "Carpet" /\ out.result.total_rows # 0
       THEN /\ pc' = "deleting"
            /\ result' = <<out.result>>
       ELSE /\ pc' = "returned"
            /\ result' = <<IF service = "Carpet" THEN sync_carpets(out.result)
                           ELSE sync_sales(out.result)>>

\* The rest of BaseGoogleSheetsService.sync_data.
Reconcile ==
    /\ pc = "fetched"
    /\ \E existing_records \in load_existing_records(service, session) :
        BaseReturns(BaseSyncData(service, values, session, existing_records))
    /\ UNCHANGED <<service, table, values, before, refetched, rerun>>
    /\ UNCHANGED <<searchVars, usersVars, runs, dialogVars>>

RollbackKeeps(tbl, sess) == sess

\* except Exception: await session.rollback(); raise e.  What the session
\* holds after the rollback: the committed table.
rollback(tbl, sess) == tbl

\* The flush (before the SELECT of the deletion step, or at commit) raises
\* IntegrityError: the exception leaves sync_data and get_session rolls back.
FlushFails ==
    /\ pc \in {"deleting", "returned"}
    /\ ~FlushOk(service, session)
    /\ pc' = "failed"
    /\ session' = rollback(table, session)
    /\ result' = <<>>
    /\ UNCHANGED <<service, table, values, log, before, refetched, rerun>>
    /\ UNCHANGED <<searchVars, usersVars, runs, dialogVars>>

DeletionReturns(out) ==
    /\ session' = out.session
    /\ result' = <<sync_carpets(out.result)>>

\* The deletion step of GoogleSheetsCarpetService.sync_data, and the return
\* through sync_carpets.
DeleteMissing ==
    /\ pc = "deleting"
    /\ FlushOk(service, session)
    /\ \E vals2 \in SheetEdits(values) :
        /\ refetched' = <<vals2>>
        /\ DeletionReturns(CarpetDeletion(result[1], session, vals2))
    /\ pc' = "returned"
    /\ UNCHANGED <<service, table, values, log, before, rerun>>
    /\ UNCHANGED <<searchVars, usersVars, runs, dialogVars>>

\* A statement of the request (the SELECT of load_existing_records, the
\* flush, the DELETE) or the commit fails with a database error other than
\* the constraint violation: the exception leaves sync_data, get_session
\* rolls back and re-raises, and perform_sync_with_animation reports it.
DatabaseFails ==
    /\ pc \in {"fetched", "deleting", "returned"}
    /\ FlushOk(service, session)
    /\ pc' = "failed"
    /\ session' = rollback(table, session)
    /\ result' = <<>>
    /\ UNCHANGED <<service, table, values, log, before, refetched, rerun>>
    /\ UNCHANGED <<searchVars, usersVars, runs, dialogVars>>

\* get_session: await session.commit().
Commit ==
    /\ pc = "returned"
    /\ FlushOk(service, session)
    /\ table' = session
    /\ pc' = "done"
    /\ UNCHANGED <<service, values, session, result, log, before, refetched, rerun>>
    /\ UNCHANGED <<searchVars, usersVars, runs, dialogVars>>

Next ==
    \/ FetchSheet
    \/ Reconcile
    \/ FlushFails
    \/ DeleteMissing
    \/ DatabaseFails
    \/ Commit

Spec == Init /\ [][Next]_vars

(***************************************************************************)
(* The filter engine called on a catalog                                   *)
(***************************************************************************)

InitFilter ==
    /\ service = "Carpet"
    /\ table \in Catalogs
    /\ pc = "idle"
    /\ values = <<>>
    /\ session = EmptyBag
    /\ result = <<>>
    /\ log = <<>>
    /\ before = EmptyBag
    /\ refetched = <<>>
    /\ rerun = FALSE
    /\ filters = EmptyFilters
    /\ filter_available_only \in BOOLEAN
    /\ view = <<>>
    /\ registered = {} /\ pending = {} /\ banned = {}
    /\ outcome = <<>>
    /\ runs = <<>>
    /\ NoDialog

\* A call of get_filter_options, for a facet or for a name that is none.
GetFilterOptions ==
    /\ \E filter_type \in Facets \cup {"price"}, gathered \in BOOLEAN :
        /\ gathered \/ filter_type = "color"
        /\ view' = <<get_filter_options(table, filter_available_only, filter_type,
                                        filters, gathered)>>
    /\ UNCHANGED <<filters, filter_available_only>>
    /\ UNCHANGED <<syncVars, usersVars, runs, dialogVars>>

\* A call of CarpetSearchService.search_carpets: the carpets found.
SearchCarpets ==
    /\ view' = <<[carpets |-> search_carpets(table, filter_available_only, filters)]>>
    /\ UNCHANGED <<filters, filter_available_only>>
    /\ UNCHANGED <<syncVars, usersVars, runs, dialogVars>>

\* A call of update_filter_selection whose result becomes the current state.
UpdateFilterSelection ==
    /\ \E filter_type \in Facets :
        \E selected_values \in SUBSET Selectable(filter_type) :
            filters' = update_filter_selection(filters, filter_type, selected_values)
    /\ UNCHANGED <<filter_available_only, view>>
    /\ UNCHANGED <<syncVars, usersVars, runs, dialogVars>>

ClearFilter ==
    /\ \E filter_type \in Facets : filters' = clear_filter(filters, filter_type)
    /\ UNCHANGED <<filter_available_only, view>>
    /\ UNCHANGED <<syncVars, usersVars, runs, dialogVars>>

ClearAll ==
    /\ filters' = clear_all(filters)
    /\ UNCHANGED <<filter_available_only, view>>
    /\ UNCHANGED <<syncVars, usersVars, runs, dialogVars>>

NextFilter ==
    \/ GetFilterOptions
    \/ SearchCarpets
    \/ UpdateFilterSelection
    \/ ClearFilter
    \/ ClearAll

SpecFilter == InitFilter /\ [][NextFilter]_vars

(***************************************************************************)
(* Properties of the filter engine                                         *)
(***************************************************************************)

\* C1 - Facet exclusion.  For every facet F and every filter state that
\* differs from the current one only in the values selected for F,
\* get_filtered_unique_values(F, .) returns the same (value, count) pairs,
\* and the options get_filter_options builds have the same values and
\* counts: only their selected flags may differ.
FacetExclusion ==
    \A F \in Facets : \A selected_values \in SUBSET Selectable(F) : \A gathered \in BOOLEAN :
        LET other == update_filter_selection(filters, F, selected_values)
            a == get_filter_options(table, filter_available_only, F, filters, gathered)
            b == get_filter_options(table, filter_available_only, F, other, gathered)
        IN  /\ get_filtered_unique_values(table, filter_available_only, F, filters, gathered)
                = get_filtered_unique_values(table, filter_available_only, F, other, gathered)
            /\ Len(a.options) = Len(b.options)
            /\ \A i \in DOMAIN a.options :
                  /\ a.options[i].value = b.options[i].value
                  /\ a.options[i].count = b.options[i].count

\* The options of geometry were computed while Rect alone is selected, and
\* they list Oval, which is not selected, with the carpets that have it.
FacetExclusionWitness ==
    /\ view # <<>>
    /\ filters["geometry"] = {"Rect"}
    /\ view[1] = get_filter_options(table, filter_available_only, "geometry", filters, TRUE)
    /\ \E i \in DOMAIN view[1].options :
          /\ view[1].options[i].value = "Oval"
          /\ view[1].options[i].count > 0
          /\ ~view[1].options[i].selected
    /\ \E i \in DOMAIN view[1].options :
          /\ view[1].options[i].value = "Rect"
          /\ view[1].options[i].selected

(***************************************************************************)
(* Properties of the reconciliation job                                    *)
(***************************************************************************)

\* What sync_data parses out of a fetched sheet; nothing when it returns
\* before parsing.
Parsed(vals) ==
    IF vals # <<>> /\ Head(vals) # <<>>
    THEN parse_table_from_google_sheets(service, Tail(vals), Head(vals))
    ELSE [valid_rows |-> <<>>, invalid_rows |-> <<>>]

Keys(tbl) == {RecordKey(service, r) : r \in BagToSet(tbl)}

ValidKeys(vals) ==
    {extract_key_from_payload(service, row_to_payload(service, Parsed(vals).valid_rows[i])) :
        i \in DOMAIN Parsed(vals).valid_rows}

\* The request has its final SyncResult.
Finished == pc \in {"returned", "done"}

\* The loop of sync_data has ended and nothing ran after it.
LoopDone == pc = "deleting" \/ (pc = "returned" /\ refetched = <<>>)

\* The sheet was read the same way by every fetch of the run.
SheetStable == refetched \in {<<>>, <<values>>}

\* C2 - Idempotence, as the specification states it: a run that repeats a
\* committed run on the same sheet reports inserted = 0, updated = 0 and
\* skipped = number of valid rows, and changes no record.
Idempotence ==
    (rerun /\ Finished /\ SheetStable) =>
        /\ result[1].inserted = 0
        /\ result[1].updated = 0
        /\ result[1].skipped = Len(Parsed(values).valid_rows)
        /\ session = before

\* C3 - Deletion variant, as the specification states it, for a carpet sync
\* that read one and the same sheet, with a header and at least one data
\* row: afterwards
\* the ids of the table are the ids of the valid rows, and deleted counts
\* the ids that were stored before and are not among the valid rows.
DeletionVariant ==
    (service = "Carpet" /\ Finished /\ SheetStable /\ Len(values) >= 2 /\ Head(values) # <<>>) =>
        /\ Keys(session) = ValidKeys(values)
        /\ result[1].deleted = Cardinality(Keys(before) \ ValidKeys(values))

\* C4 - Total consistency.  Every SyncResult the job returns (from
\* sync_data, and from sync_carpets or sync_sales) has
\* total_rows = inserted + updated + skipped + bad_data and no negative
\* counter.
TotalConsistency ==
    result # <<>> =>
        /\ result[1].total_rows
             = result[1].inserted + result[1].updated + result[1].skipped + result[1].bad_data
        /\ \A counter \in {"total_rows", "inserted", "updated", "skipped", "bad_data", "deleted"} :
              result[1][counter] >= 0

\* A committed run that inserted a row and counted a bad row.
TotalConsistencyWitness ==
    /\ pc = "done"
    /\ result[1].inserted > 0
    /\ result[1].bad_data > 0
    /\ result[1].total_rows = 2

\* C5 - Row counters, as the specification states them: for a sheet with a
\* header and n data rows of which k fail validation, total_rows = n and
\* bad_data = k, for every k up to n.
RowCounters ==
    (result # <<>> /\ values # <<>> /\ Head(values) # <<>>) =>
        /\ result[1].total_rows = Len(values) - 1
        /\ result[1].bad_data = Len(Parsed(values).invalid_rows)

\* C6 - No deletion without opt-in, as the specification states it: no run
\* of sync_carpets or sync_sales (neither takes a deletion opt-in) over a
\* sheet nobody edits meanwhile removes a record that was stored when it
\* started, and none reports a deletion.
NoDeletionWithoutOptIn ==
    (Finished /\ SheetStable) =>
        /\ Keys(before) \subseteq Keys(session)
        /\ result[1].deleted = 0

\* has_changes' notion of a field that differs: beyond the tolerance for a
\* float field, at all for another field.
Differs(field, stored, new) ==
    IF field \in FloatFields(service)
    THEN stored - new > Tolerance \/ new - stored > Tolerance
    ELSE stored # new

LogCount(event) == Cardinality({i \in DOMAIN log : log[i].event = event})

WithinTolerance(record, payload) ==
    \A f \in DOMAIN payload :
        IF f \in FloatFields(service)
        THEN record[f] - payload[f] < Tolerance /\ payload[f] - record[f] < Tolerance
        ELSE record[f] = payload[f]

\* C8 - Float tolerance.  A valid row whose float fields (price; or
\* basic_price, sale_price, discount) differ from the record's by less
\* than 1e-6, every other payload field being equal, makes has_changes
\* return False and is counted as skipped, and its record is not modified:
\* the next row with the key meets the same record, and when there is no
\* such row the record is in the session as it was.
FloatTolerance ==
    \A i \in DOMAIN log :
        (log[i].record # <<>> /\ WithinTolerance(log[i].record[1], log[i].payload)) =>
            /\ ~has_changes(service, log[i].record[1], log[i].payload)
            /\ log[i].event = "skip"
            /\ \A j \in (i + 1)..Len(log) :
                  (log[j].key = log[i].key /\ \A m \in (i + 1)..(j - 1) : log[m].key # log[i].key)
                      => log[j].record = log[i].record
            /\ (LoopDone /\ \A j \in (i + 1)..Len(log) : log[j].key # log[i].key)
                  => log[i].record[1] \in BagToSet(session)

\* A committed run skipped a row whose float field is not the stored one.
FloatToleranceWitness ==
    /\ pc = "done"
    /\ result[1].skipped > 0
    /\ \E i \in DOMAIN log :
          /\ log[i].record # <<>>
          /\ WithinTolerance(log[i].record[1], log[i].payload)
          /\ \E f \in FloatFields(service) : log[i].record[1][f] # log[i].payload[f]

\* The data row at position k of the fetched sheet fails validation.
FailsValidation(k) ==
    ValidateRow(service, RowData(service, Head(values), values[k + 1])).row = <<>>

\* The entries of the invalid report numbered n.
ReportEntries(n) ==
    {j \in DOMAIN result[1].invalid_report :
        /\ result[1].invalid_report[j].kind = "row"
        /\ result[1].invalid_report[j].row = n}

\* C9 - Row numbering and no silent drop.  In the report of a sync over a
\* sheet with a header, every data row at position k that fails validation
\* has exactly one entry, numbered k + 1, and a row that passes has none;
\* also when no row is valid.
RowNumbering ==
    (result # <<>> /\ values # <<>> /\ Head(values) # <<>>) =>
        \A k \in 1..(Len(values) - 1) :
            Cardinality(ReportEntries(k + 1)) = (IF FailsValidation(k) THEN 1 ELSE 0)

\* A run over two data rows, none valid: the report numbers them 2 and 3.
RowNumberingWitness ==
    /\ Finished
    /\ Len(values) = 3
    /\ Head(values) # <<>>
    /\ FailsValidation(1) /\ FailsValidation(2)
    /\ ReportEntries(2) # {} /\ ReportEntries(3) # {}

\* C10 - EmptyInput, as the specification states it: for an empty sheet, an
\* empty header row or a header without data rows, the result has every
\* counter 0 and a report that is not empty, and no record changes.
EmptyInput ==
    (result # <<>> /\ (values = <<>> \/ Head(values) = <<>> \/ Len(values) = 1)) =>
        /\ \A counter \in {"total_rows", "inserted", "updated", "skipped", "bad_data", "deleted"} :
              result[1][counter] = 0
        /\ session = before
        /\ result[1].invalid_report # <<>>

(***************************************************************************)
(* Properties of the transaction of a sync request                         *)
(***************************************************************************)

\* C11 - Transaction atomicity.  While a sync request runs, and after it
\* failed, the table is what it was when the request started: none of the
\* run's inserts, updates or deletes is visible.  A failed request has no
\* result (the error went to the caller) and its session is rolled back to
\* the table.  A committed request made the table equal to its session:
\* every insert, update and delete of the run together.
TransactionAtomicity ==
    /\ pc \in {"fetched", "deleting", "returned", "failed"} => table = before
    /\ pc = "failed" => (result = <<>> /\ session = table)
    /\ pc = "done" => table = session

\* A run that had inserted a record and deleted another failed, over a
\* table that held a record.
TransactionAtomicityWitness ==
    /\ pc = "failed"
    /\ LogCount("insert") > 0
    /\ refetched # <<>>
    /\ table # EmptyBag

(***************************************************************************)
(* More properties of the filter engine                                    *)
(***************************************************************************)

\* C12 - Unknown facet, as the specification states it: no call of
\* get_filter_options has returned a result (an option list and a total
\* count) for a name that is not a facet.
UnknownFacetFails ==
    \A r \in Range(view) : "filter_type" \in DOMAIN r => r.filter_type \in Facets

\* The count get_filtered_unique_values returns for value v, 0 when the
\* list has no pair for v.
ListedCount(found, v) ==
    IF \E i \in DOMAIN found.values : found.values[i][1] = v
    THEN (CHOOSE p \in Range(found.values) : p[1] = v)[2]
    ELSE 0

\* The colour slots of item c that hold v.
SlotsHolding(c, v) == {slot \in {"color_1", "color_2", "color_3"} : c[slot] = v}

\* What item c adds to the count of value v of facet F.
Contribution(F, c, v) ==
    IF F = "color" THEN Cardinality(SlotsHolding(c, v))
    ELSE IF c[F] = v THEN 1 ELSE 0

\* The values of facet F that items of the pool have.
PoolValues(F) ==
    IF F = "color" THEN {c[slot] : c \in CarpetPool, slot \in {"color_1", "color_2", "color_3"}} \ {None}
    ELSE {c[F] : c \in CarpetPool}

\* C13 - Availability policy consistency.  With filter_available_only
\* enabled an item of quantity 0 changes nothing: it is not returned by
\* search_carpets, and count_filtered_carpets and every per-facet count
\* (colour included) are what they are on the catalog without the item.
\* With the flag disabled the item is found and counted whenever the
\* filters select it, and adds to the counts of its facet values, once per
\* colour slot, whenever the other facets' filters select it.
AvailabilityPolicy ==
    \A c \in BagToSet(table) :
        c.quantity = 0 =>
            LET flag == filter_available_only
                without == table (-) SetToBag({c})
                selected == build_filter_conditions(filters, c)
            IN  /\ flag => c \notin search_carpets(table, flag, filters)
                /\ flag => count_filtered_carpets(table, flag, filters)
                              = count_filtered_carpets(without, flag, filters)
                /\ ~flag => (c \in search_carpets(table, flag, filters) <=> selected)
                /\ ~flag => count_filtered_carpets(table, flag, filters)
                              = count_filtered_carpets(without, flag, filters)
                                  + (IF selected THEN 1 ELSE 0)
                /\ \A F \in Facets :
                      LET with_c == get_filtered_unique_values(table, flag, F, filters, TRUE)
                          less_c == get_filtered_unique_values(without, flag, F, filters, TRUE)
                          others == build_filter_conditions(FiltersWithoutCurrent(filters, F), c)
                      IN  /\ flag => with_c = less_c
                          /\ ~flag => \A v \in PoolValues(F) :
                                ListedCount(with_c, v) = ListedCount(less_c, v)
                                    + (IF others THEN Contribution(F, c, v) ELSE 0)

\* With the flag enabled, the geometry options of a catalog whose only Oval
\* carpet has quantity 0 were computed: they do not list Oval and the total
\* counts the other carpet alone.
AvailabilityPolicyWitness ==
    /\ view # <<>>
    /\ filters = EmptyFilters
    /\ \E c \in BagToSet(table) : c.quantity = 0 /\ c.geometry = "Oval"
    /\ \E d \in BagToSet(table) : d.quantity > 0
    /\ view[1] = get_filter_options(table, filter_available_only, "geometry", filters, TRUE)
    /\ filter_available_only
    /\ \A i \in DOMAIN view[1].options : view[1].options[i].value # "Oval"
    /\ view[1].total_carpets = 1

\* The (item, slot) pairs whose slot holds colour v, over the items that
\* every facet but colour selects and the availability policy admits.
ColourPairs(v) ==
    {p \in BagToSet(table) \X {"color_1", "color_2", "color_3"} :
        /\ p[1][p[2]] = v
        /\ build_filter_conditions([filters EXCEPT !["color"] = {}], p[1])
        /\ filter_available_only => p[1].quantity > 0}

\* C14 - Colour aggregation.  The colour facet lists every colour once,
\* with the number of (item, slot) pairs whose slot holds it, over the
\* items matching every other facet's constraint and the availability
\* policy; a colour no such slot holds is not listed.
ColourAggregation ==
    LET found == get_filtered_unique_values(table, filter_available_only, "color", filters, TRUE)
    IN  /\ found.raised = None
        /\ \A v \in PoolValues("color") : ListedCount(found, v) = Cardinality(ColourPairs(v))
        /\ \A i, j \in DOMAIN found.values :
              /\ found.values[i][2] > 0
              /\ found.values[i][1] \in PoolValues("color")
              /\ found.values[i][1] = found.values[j][1] => i = j

\* The colour options of a catalog with the one item {Green, Red, Red} were
\* computed: Red is listed with a count of 2.
ColourAggregationWitness ==
    /\ view # <<>>
    /\ Cardinality(BagToSet(table)) = 1
    /\ \E c \in BagToSet(table) : c.color_2 = "Red" /\ c.color_3 = "Red"
    /\ view[1] = get_filter_options(table, filter_available_only, "color", filters, TRUE)
    /\ \E i \in DOMAIN view[1].options :
          view[1].options[i].value = "Red" /\ view[1].options[i].count = 2

\* The geometry counts of the items of the catalog, admitted by the
\* availability policy, whose style is one of styles; of all of them when
\* styles is empty.
GeometryCounts(styles) ==
    LET items == {c \in BagToSet(table) :
                     /\ filter_available_only => c.quantity > 0
                     /\ styles # {} => c.style \in styles}
    IN  [v \in {c.geometry : c \in items} |-> Cardinality({c \in items : c.geometry = v})]

\* Only the style facet may have a selection.
OnlyStyle(f) == \A F \in Facets \ {"style"} : f[F] = {}

\* The options list exactly the values of counts, each with its count.
ListsCounts(options, counts) ==
    /\ {options[i].value : i \in DOMAIN options} = DOMAIN counts
    /\ Len(options) = Cardinality(DOMAIN counts)
    /\ \A i \in DOMAIN options : options[i].count = counts[options[i].value]

\* C15 - Filter then widen.  Whenever the geometry options are computed
\* while style alone has a selection, whatever was selected, cleared or
\* shown before, their counts are those of the items with a selected style;
\* when they are computed after the selection was cleared (no facet has a
\* selection) they are the counts of the unfiltered catalog.  Clearing a
\* facet leaves it without a selection and the other facets as they were.
FilterThenWiden ==
    [][/\ (view' # view /\ view' # <<>> /\ "filter_type" \in DOMAIN view'[1]
             /\ view'[1].filter_type = "geometry" /\ OnlyStyle(filters')) =>
                ListsCounts(view'[1].options, GeometryCounts(filters'.style))
       /\ \A F \in Facets :
             (filters[F] # {} /\ filters' = clear_filter(filters, F)) =>
                /\ filters'[F] = {}
                /\ \A G \in Facets \ {F} : filters'[G] = filters[G]
                /\ OnlyStyle(filters') =>
                      ListsCounts(get_filter_options(table, filter_available_only, "geometry",
                                                     filters', TRUE).options,
                                  GeometryCounts(filters'.style))
      ]_vars

\* The geometry options on show were computed under style = Modern and list
\* fewer carpets than the catalog has; the style selection has been cleared
\* since.
FilterThenWidenWitness ==
    /\ view # <<>>
    /\ filters = EmptyFilters
    /\ view[1] = get_filter_options(table, filter_available_only, "geometry",
                                    [EmptyFilters EXCEPT !["style"] = {"Modern"}], TRUE)
    /\ view[1] # get_filter_options(table, filter_available_only, "geometry", filters, TRUE)

(***************************************************************************)
(* User records: database/models/users.py, dao/user.py,                    *)
(* services/admin/users_managment/service.py,                              *)
(* services/user_registration/service.py, services/start_command/service.py *)
(***************************************************************************)

\* Most identities with a user record.
MaxUsers == 2

\* The telegram ids of users, and settings.ADMIN_IDS.
TelegramIds == 1..MaxUsers
ADMIN_IDS == {MaxUsers + 1}

Usernames == {None, "bob"}

\* RegisteredUserRole (two of its values).
RegisteredUserRole == {"Neopredelenna", "Dizainer"}

\* The rows of the three tables, with the columns the handlers here read or
\* write: the primary key, the unique username and the role.
RegisteredUser(telegram_id, username, role) ==
    [telegram_id |-> telegram_id, username |-> username, role |-> role]

PendingUser(telegram_id, username) == [telegram_id |-> telegram_id, username |-> username]

BannedUser(telegram_id, username) == [telegram_id |-> telegram_id, username |-> username]

\* session.get(Model, telegram_id): <<row>>, or <<>> for None.
SessionGet(rows, telegram_id) ==
    IF \E r \in rows : r.telegram_id = telegram_id
    THEN <<CHOOSE r \in rows : r.telegram_id = telegram_id>>
    ELSE <<>>

get_registered_user_by_id(db, telegram_id) == SessionGet(db.registered, telegram_id)

get_banned_user_by_id(db, telegram_id) == SessionGet(db.banned, telegram_id)

get_pending_user_by_id(db, telegram_id) == SessionGet(db.pending, telegram_id)

\* telegram_id is the primary key of a table and username is unique in it.
TableOk(rows) ==
    \A r, q \in rows :
        (r.telegram_id = q.telegram_id \/ (r.username # None /\ r.username = q.username)) => r = q

\* The flush at commit goes through.
UsersFlushOk(db) == TableOk(db.registered) /\ TableOk(db.pending) /\ TableOk(db.banned)

\* The attributes of UserRegistrationInput, a msgspec Struct: its fields.  A
\* Struct has no model_dump.
UserRegistrationInput ==
    {"telegram_id", "username", "first_name", "last_name", "email", "phone", "from_whom"}

AddPendingUserDumps(db, user_data) ==
    [raised |-> None,
     db |-> [db EXCEPT !.pending = @ \cup {PendingUser(user_data.telegram_id, user_data.username)}]]

\* UserDAO.add_pending_user: session.add(PendingUser(**user_data.model_dump())),
\* every exception logged and raised again.
add_pending_user(db, user_data) ==
    IF "model_dump" \in UserRegistrationInput
    THEN [raised |-> None,
          db |-> [db EXCEPT !.pending = @ \cup {PendingUser(user_data.telegram_id, user_data.username)}]]
    ELSE [raised |-> "AttributeError", db |-> db]

\* RegistrationService.save_registration: True, or False for any exception.
save_registration(db, registration_data) ==
    LET added == add_pending_user(db, registration_data)
    IN  [success |-> added.raised = None, db |-> added.db]

\* RegistrationService.check_existing_user: exists.
check_existing_user(db, telegram_id) ==
    \/ get_registered_user_by_id(db, telegram_id) # <<>>
    \/ get_pending_user_by_id(db, telegram_id) # <<>>
    \/ get_banned_user_by_id(db, telegram_id) # <<>>

\* UserDAO.approve_user.
approve_user(db, telegram_id, chosen_role) ==
    LET pending_user == get_pending_user_by_id(db, telegram_id)
    IN  IF pending_user = <<>> THEN db
        ELSE [db EXCEPT !.registered = @ \cup {RegisteredUser(pending_user[1].telegram_id,
                                                              pending_user[1].username, chosen_role)},
                        !.pending = @ \ {pending_user[1]}]

BanKeepsRegistered(db, telegram_id) ==
    [success |-> TRUE, db |-> [db EXCEPT !.banned = @ \cup {BannedUser(telegram_id, None)}]]

\* UserDAO.ban_user.
dao_ban_user(db, telegram_id) ==
    LET user_to_ban == get_registered_user_by_id(db, telegram_id)
    IN  IF user_to_ban = <<>> THEN [success |-> FALSE, db |-> db]
        ELSE [success |-> TRUE,
              db |-> [db EXCEPT !.banned = @ \cup {BannedUser(user_to_ban[1].telegram_id,
                                                              user_to_ban[1].username)},
                                !.registered = @ \ {user_to_ban[1]}]]

\* AdminUserManagementService.approve_pending_user.
approve_pending_user(db, telegram_id, role) ==
    IF get_pending_user_by_id(db, telegram_id) = <<>> THEN [success |-> FALSE, db |-> db]
    ELSE IF get_registered_user_by_id(db, telegram_id) # <<>> THEN [success |-> FALSE, db |-> db]
    ELSE [success |-> TRUE, db |-> approve_user(db, telegram_id, role)]

\* AdminUserManagementService.reject_pending_user.
reject_pending_user(db, telegram_id) ==
    LET pending_user == get_pending_user_by_id(db, telegram_id)
    IN  IF pending_user = <<>> THEN [success |-> FALSE, db |-> db]
        ELSE [success |-> TRUE, db |-> [db EXCEPT !.pending = @ \ {pending_user[1]}]]

\* AdminUserManagementService.add_user_manually.
add_user_manually(db, telegram_id, username, role) ==
    IF get_registered_user_by_id(db, telegram_id) # <<>> THEN [success |-> FALSE, db |-> db]
    ELSE IF get_pending_user_by_id(db, telegram_id) # <<>> THEN [success |-> FALSE, db |-> db]
    ELSE IF get_banned_user_by_id(db, telegram_id) # <<>> THEN [success |-> FALSE, db |-> db]
    ELSE [success |-> TRUE,
          db |-> [db EXCEPT !.registered = @ \cup {RegisteredUser(telegram_id, username, role)}]]

\* AdminUserManagementService.ban_user.
ban_user(db, telegram_id) == dao_ban_user(db, telegram_id)

\* One lookup of determine_user_type as asyncio.gather(...,
\* return_exceptions=True) hands it back: the row, None, or the exception.
Gathered(found, failed) == [exception |-> failed, value |-> IF failed THEN <<>> ELSE found]

\* `x and not isinstance(x, Exception)`.
Found(x) == x.value # <<>> /\ ~x.exception

\* StartCommandService.determine_user_type; failed names the lookups that
\* raised.  The result: the exception raised or the user_type returned.
determine_user_type(db, telegram_id, failed) ==
    IF telegram_id \in ADMIN_IDS THEN [raised |-> FALSE, user_type |-> "admin"]
    ELSE IF Found(Gathered(get_banned_user_by_id(db, telegram_id), "banned" \in failed))
    THEN [raised |-> FALSE, user_type |-> "banned_user"]
    ELSE IF Found(Gathered(get_registered_user_by_id(db, telegram_id), "registered" \in failed))
    THEN [raised |-> FALSE, user_type |-> "registered_user"]
    ELSE IF Found(Gathered(get_pending_user_by_id(db, telegram_id), "pending" \in failed))
    THEN [raised |-> FALSE, user_type |-> "pending_user"]
    ELSE [raised |-> FALSE, user_type |-> "new_user"]

\* The three tables as one session reads them.
Db == [registered |-> registered, pending |-> pending, banned |-> banned]

LookupNames == {"banned", "registered", "pending"}

\* What a handler did: the operation, its identity and role, what the service
\* answered, whether get_session committed, and for /start the user type, the
\* lookups that failed and whether the service raised.
Outcome(op, telegram_id, role, success, committed, user_type, failed, raised) ==
    [op |-> op, telegram_id |-> telegram_id, role |-> role, success |-> success,
     committed |-> committed, user_type |-> user_type, failed |-> failed, raised |-> raised]

\* What a handler of the users dialogs leaves: the answer of the service, and
\* the tables after `async with db.get_session()` ended, in a commit or, on a
\* constraint violation, in a rollback.
Handled(db, op, telegram_id, role, answer) ==
    LET ok == UsersFlushOk(answer.db)
    IN  [db |-> IF ok THEN answer.db ELSE db,
         outcome |-> <<Outcome(op, telegram_id, role, answer.success, ok, None, {}, FALSE)>>]

\* bot/handlers/registration.py save_registration_data, the data valid.
SaveRegistrationData ==
    \E telegram_id \in TelegramIds, username \in Usernames :
        LET h == IF check_existing_user(Db, telegram_id)
                 THEN Handled(Db, "exists", telegram_id, None, [success |-> FALSE, db |-> Db])
                 ELSE Handled(Db, "register", telegram_id, None,
                              save_registration(Db, [telegram_id |-> telegram_id,
                                                     username |-> username]))
        IN  /\ registered' = h.db.registered
            /\ pending' = h.db.pending
            /\ banned' = h.db.banned
            /\ outcome' = h.outcome
            /\ UNCHANGED <<syncVars, searchVars, runs, dialogVars>>

\* bot/dialogs/admin/pending_users.py on_role_selected.
OnRoleSelected ==
    \E telegram_id \in TelegramIds, role \in RegisteredUserRole :
        LET h == Handled(Db, "approve", telegram_id, role, approve_pending_user(Db, telegram_id, role))
        IN  /\ registered' = h.db.registered
            /\ pending' = h.db.pending
            /\ banned' = h.db.banned
            /\ outcome' = h.outcome
            /\ UNCHANGED <<syncVars, searchVars, runs, dialogVars>>

\* bot/dialogs/admin/pending_users.py on_decline_reason_input.
OnDeclineReasonInput ==
    \E telegram_id \in TelegramIds :
        LET h == Handled(Db, "reject", telegram_id, None, reject_pending_user(Db, telegram_id))
        IN  /\ registered' = h.db.registered
            /\ pending' = h.db.pending
            /\ banned' = h.db.banned
            /\ outcome' = h.outcome
            /\ UNCHANGED <<syncVars, searchVars, runs, dialogVars>>

\* bot/dialogs/admin/pending_users.py skip_decline_reason.
SkipDeclineReason ==
    \E telegram_id \in TelegramIds :
        LET h == Handled(Db, "reject", telegram_id, None, reject_pending_user(Db, telegram_id))
        IN  /\ registered' = h.db.registered
            /\ pending' = h.db.pending
            /\ banned' = h.db.banned
            /\ outcome' = h.outcome
            /\ UNCHANGED <<syncVars, searchVars, runs, dialogVars>>

\* bot/dialogs/admin/add_user.py confirm_add_user.
ConfirmAddUser ==
    \E telegram_id \in TelegramIds, username \in Usernames, role \in RegisteredUserRole :
        LET h == Handled(Db, "add", telegram_id, role, add_user_manually(Db, telegram_id, username, role))
        IN  /\ registered' = h.db.registered
            /\ pending' = h.db.pending
            /\ banned' = h.db.banned
            /\ outcome' = h.outcome
            /\ UNCHANGED <<syncVars, searchVars, runs, dialogVars>>

\* bot/dialogs/admin/ban_user.py confirm_ban_user.
ConfirmBanUser ==
    \E telegram_id \in TelegramIds :
        LET h == Handled(Db, "ban", telegram_id, None, ban_user(Db, telegram_id))
        IN  /\ registered' = h.db.registered
            /\ pending' = h.db.pending
            /\ banned' = h.db.banned
            /\ outcome' = h.outcome
            /\ UNCHANGED <<syncVars, searchVars, runs, dialogVars>>

\* bot/handlers/start_command.py handle_start_command: the three lookups run
\* under asyncio.gather on the one session of the request, and any of them
\* can fail.
HandleStartCommand ==
    \E telegram_id \in TelegramIds \cup ADMIN_IDS, failed \in SUBSET LookupNames :
        LET info == determine_user_type(Db, telegram_id, failed)
        IN  /\ outcome' = <<Outcome("start", telegram_id, None, ~info.raised, TRUE,
                                    info.user_type, failed, info.raised)>>
            /\ UNCHANGED <<registered, pending, banned, syncVars, searchVars, runs, dialogVars>>

\* The rows of one table that a status and a username per identity give.
RowsOf(status, name, role, which) ==
    {IF which = "registered" THEN RegisteredUser(i, name[i], role[i])
     ELSE IF which = "pending" THEN PendingUser(i, name[i])
     ELSE BannedUser(i, name[i]) : i \in {j \in TelegramIds : status[j] = which}}

\* The tables as the constraints of database/models/users.py and the handlers
\* leave them: each identity in at most one table, usernames unique in a table.
UserTables ==
    \E status \in [TelegramIds -> {"none", "registered", "pending", "banned"}],
       name \in [TelegramIds -> Usernames], role \in [TelegramIds -> RegisteredUserRole] :
        /\ \A i \in TelegramIds : status[i] # "registered" => role[i] = "Neopredelenna"
        /\ \A i \in TelegramIds : status[i] = "none" => name[i] = None
        /\ registered = RowsOf(status, name, role, "registered")
        /\ pending = RowsOf(status, name, role, "pending")
        /\ banned = RowsOf(status, name, role, "banned")
        /\ UsersFlushOk(Db)

InitUsers ==
    /\ service = "Carpet"
    /\ table = EmptyBag
    /\ pc = "idle"
    /\ values = <<>>
    /\ session = EmptyBag
    /\ result = <<>>
    /\ log = <<>>
    /\ before = EmptyBag
    /\ refetched = <<>>
    /\ rerun = FALSE
    /\ InitSearch
    /\ runs = <<>>
    /\ NoDialog
    /\ outcome = <<>>
    /\ UserTables

NextUsers ==
    \/ SaveRegistrationData
    \/ OnRoleSelected
    \/ OnDeclineReasonInput
    \/ SkipDeclineReason
    \/ ConfirmAddUser
    \/ ConfirmBanUser
    \/ HandleStartCommand

SpecUsers == InitUsers /\ [][NextUsers]_vars

\* The telegram ids with a row in a table.
IdsOf(rows) == {r.telegram_id : r \in rows}

\* C16: whatever committed sequence of registration saves, approvals,
\* rejections, manual additions and bans ran from disjoint tables, every
\* telegram_id has a row in at most one of registered_users, pending_users
\* and banned_users.
MembershipDisjointness ==
    /\ IdsOf(registered) \cap IdsOf(pending) = {}
    /\ IdsOf(registered) \cap IdsOf(banned) = {}
    /\ IdsOf(pending) \cap IdsOf(banned) = {}

\* A ban was committed while another identity waits in pending_users and a
\* third operation could still follow: the moved identity is in banned_users.
MembershipDisjointnessWitness ==
    /\ outcome # <<>>
    /\ outcome[1].op = "ban"
    /\ outcome[1].success
    /\ outcome[1].committed
    /\ outcome[1].telegram_id \in IdsOf(banned)
    /\ pending # {}

\* C17: an approval the service reported as done leaves the identity in
\* registered_users with the chosen role and out of pending_users, a
\* rejection leaves it in no table, and a ban leaves it in banned_users and
\* out of registered_users.
MembershipTransitions ==
    outcome # <<>> /\ outcome[1].success =>
        LET telegram_id == outcome[1].telegram_id
        IN  /\ outcome[1].op = "approve" =>
                /\ \E r \in registered : r.telegram_id = telegram_id /\ r.role = outcome[1].role
                /\ telegram_id \notin IdsOf(pending)
            /\ outcome[1].op = "reject" =>
                telegram_id \notin IdsOf(registered) \cup IdsOf(pending) \cup IdsOf(banned)
            /\ outcome[1].op = "ban" =>
                /\ telegram_id \in IdsOf(banned)
                /\ telegram_id \notin IdsOf(registered)

\* C19: when one of the three membership lookups of a non-admin identity
\* failed, determine_user_type raised and returned no user type; with the
\* banned lookup failed the identity is not classified new, registered or
\* pending.
LookupFailureRaises ==
    (outcome # <<>> /\ outcome[1].op = "start" /\ outcome[1].telegram_id \notin ADMIN_IDS) =>
        /\ outcome[1].failed # {} => outcome[1].raised
        /\ "banned" \in outcome[1].failed =>
               outcome[1].user_type \notin {"new_user", "registered_user", "pending_user"}

\* C20: save_registration, called with validated data for an identity in none
\* of the three tables, returned True and the identity is in pending_users.
RegistrationSaved ==
    (outcome # <<>> /\ outcome[1].op = "register") =>
        /\ outcome[1].success
        /\ outcome[1].telegram_id \in IdsOf(pending)

(***************************************************************************)
(* Two sync requests on one table: bot/handlers/admin_menu.py              *)
(* perform_sync_with_animation starts a task per confirmed request, each    *)
(* with a session of its own (database/connection.py get_session)           *)
(***************************************************************************)

\* The tasks asyncio.create_task(perform_actual_sync()) made, one per request.
Tasks == {1, 2}

\* Most data rows of a sheet the two requests fetch.
MaxRaceRows == 1

RaceSheets(s) == {<<FullHeader(s)>> \o rows : rows \in SeqsUpTo(RowPool(s), MaxRaceRows)}

\* A request that has not fetched yet.  before is the committed table when
\* the request loaded it (history).
IdleRun ==
    [pc |-> "idle", values |-> <<>>, before |-> EmptyBag, session |-> EmptyBag,
     log |-> <<>>, result |-> <<>>]

\* The rows a request has staged or flushed and not committed.
Uncommitted(run) ==
    IF run.pc \in {"deleting", "returned"} THEN run.session (-) run.before ELSE EmptyBag

\* The other request.
Other(t) == CHOOSE u \in Tasks : u # t

SelectSeesUncommitted(tbl, uncommitted) == tbl (+) uncommitted

\* What select(Carpet) / select(SalesData) of load_existing_records returns
\* in a request's session: the committed rows.  What another session added
\* is in that session only (session.add) or in its open transaction.
select_all(tbl, uncommitted) == tbl

\* What the table holds once a request that read `loaded` and has `sess`
\* commits: its deletes and its inserts applied to the committed table.
ApplyDelta(tbl, loaded, sess) == (tbl (-) (loaded (-) sess)) (+) (sess (-) loaded)

\* perform_actual_sync up to the return of fetch_all.
RaceFetch(t) ==
    /\ runs[t].pc = "idle"
    /\ \E v \in RaceSheets(service) :
        runs' = [runs EXCEPT ![t] = [@ EXCEPT !.pc = "fetched", !.values = v]]
    /\ UNCHANGED <<syncVars, searchVars, usersVars, dialogVars>>

\* The run t after BaseGoogleSheetsService.sync_data returned out, having
\* read seen.
RaceReturned(run, seen, out) ==
    [run EXCEPT !.before = seen,
                !.session = out.session,
                !.log = out.log,
                !.pc = IF service = "Carpet" /\ out.result.total_rows # 0
                       THEN "deleting" ELSE "returned",
                !.result = IF service = "Carpet" /\ out.result.total_rows # 0
                           THEN <<out.result>>
                           ELSE <<IF service = "Carpet" THEN sync_carpets(out.result)
                                  ELSE sync_sales(out.result)>>]

\* BaseGoogleSheetsService.sync_data from the return of fetch_all on:
\* load_existing_records and the loop, which has no await.
RaceReconcile(t) ==
    /\ runs[t].pc = "fetched"
    /\ \E existing_records \in
            load_existing_records(service, select_all(table, Uncommitted(runs[Other(t)]))) :
        runs' = [runs EXCEPT ![t] =
                    RaceReturned(@, table,
                                 BaseSyncData(service, runs[t].values,
                                              select_all(table, Uncommitted(runs[Other(t)])),
                                              existing_records))]
    /\ UNCHANGED <<syncVars, searchVars, usersVars, dialogVars>>

\* The deletion step of the carpet sync: the flush, the second fetch_all,
\* the DELETE.  A flushed row whose carpet_id is committed by now raises
\* IntegrityError and get_session rolls back.
RaceDeleteMissing(t) ==
    /\ runs[t].pc = "deleting"
    /\ IF FlushOk(service, ApplyDelta(table, runs[t].before, runs[t].session))
       THEN \E vals2 \in SheetEdits(runs[t].values) :
                LET out == CarpetDeletion(runs[t].result[1], runs[t].session, vals2)
                IN  runs' = [runs EXCEPT ![t] = [@ EXCEPT !.pc = "returned",
                                                          !.session = out.session,
                                                          !.result = <<sync_carpets(out.result)>>]]
       ELSE runs' = [runs EXCEPT ![t] = [@ EXCEPT !.pc = "failed",
                                                  !.session = rollback(table, @),
                                                  !.result = <<>>]]
    /\ UNCHANGED <<syncVars, searchVars, usersVars, dialogVars>>

\* get_session: await session.commit(), or the rollback when the commit
\* raises IntegrityError (the other request committed the carpet_id first).
RaceCommit(t) ==
    /\ runs[t].pc = "returned"
    /\ IF FlushOk(service, ApplyDelta(table, runs[t].before, runs[t].session))
       THEN /\ table' = ApplyDelta(table, runs[t].before, runs[t].session)
            /\ runs' = [runs EXCEPT ![t] = [@ EXCEPT !.pc = "done"]]
       ELSE /\ table' = table
            /\ runs' = [runs EXCEPT ![t] = [@ EXCEPT !.pc = "failed",
                                                     !.session = rollback(table, @),
                                                     !.result = <<>>]]
    /\ UNCHANGED <<service, pc, values, session, result, log, before, refetched, rerun>>
    /\ UNCHANGED <<searchVars, usersVars, dialogVars>>

\* Two admins (or one, twice) confirm a sync of the empty table.
InitRace ==
    /\ service \in {"Carpet", "Sale"}
    /\ table = EmptyBag
    /\ pc = "idle"
    /\ values = <<>>
    /\ session = EmptyBag
    /\ result = <<>>
    /\ log = <<>>
    /\ before = EmptyBag
    /\ refetched = <<>>
    /\ rerun = FALSE
    /\ InitSearch
    /\ registered = {} /\ pending = {} /\ banned = {}
    /\ outcome = <<>>
    /\ runs = [t \in Tasks |-> IdleRun]
    /\ NoDialog

NextRace ==
    \E t \in Tasks :
        \/ RaceFetch(t)
        \/ RaceReconcile(t)
        \/ RaceDeleteMissing(t)
        \/ RaceCommit(t)

SpecRace == InitRace /\ [][NextRace]_vars

\* The business keys a run logged as inserts.
InsertedKeys(run) == {run.log[i].key : i \in {j \in DOMAIN run.log : run.log[j].event = "insert"}}

\* C18: nothing keeps the reconciliation of one sync request apart from the
\* other's: a request classifies a row as an insert exactly when the row's
\* key is absent from the committed table as it was when the request loaded
\* it, whatever the other request has staged and not committed by then.
ConcurrentSyncsNotExcluded ==
    \A t \in Tasks :
        \A i \in DOMAIN runs[t].log :
            runs[t].log[i].event = "insert"
                <=> runs[t].log[i].key \notin {RecordKey(service, r) : r \in BagToSet(runs[t].before)}

\* Both requests loaded the empty table before either committed, and both
\* scheduled an insert for one business key.
ConcurrentSyncsNotExcludedWitness ==
    /\ table = EmptyBag
    /\ \A t \in Tasks : runs[t].pc \in {"deleting", "returned"}
    /\ InsertedKeys(runs[1]) \cap InsertedKeys(runs[2]) # {}

\* C24: a carpet sync whose sheet has no row that passes validation (no
\* data, an empty header, a header alone, or only invalid rows) deletes
\* nothing: it reports deleted = 0, its session holds the table as the run
\* found it, and so does the table once the run has committed.
NoValidRowDeletesNothing ==
    (service = "Carpet" /\ Finished /\ Parsed(values).valid_rows = <<>>) =>
        /\ result[1].deleted = 0
        /\ session = before
        /\ pc = "done" => table = before

\* A committed carpet sync of a sheet whose data rows all fail validation,
\* over a table that held a carpet.
NoValidRowDeletesNothingWitness ==
    /\ service = "Carpet"
    /\ pc = "done"
    /\ before # EmptyBag
    /\ Parsed(values).valid_rows = <<>>
    /\ Parsed(values).invalid_rows # <<>>

\* C25: a carpet the sync run inserted or updated is not deleted by that
\* run, whatever the second read of the sheet returned: once the run has
\* its result, every key it logged as an insert or an update has a record in
\* its session.
ReconciledNotDeleted ==
    (service = "Carpet" /\ Finished) =>
        \A i \in DOMAIN log :
            log[i].event \in {"insert", "update"} => log[i].key \in Keys(session)

\* C26: a sync run schedules at most one insert per business key, and after
\* a committed run no two stored records share a business key.
OneInsertPerKey ==
    /\ \A i, j \in DOMAIN log :
          (log[i].event = "insert" /\ log[j].event = "insert" /\ log[i].key = log[j].key) => i = j
    /\ pc = "done" =>
          \A r \in BagToSet(table) :
              /\ table[r] = 1
              /\ \A q \in BagToSet(table) : RecordKey(service, q) = RecordKey(service, r) => q = r

\* C27: when an admin operation (approve, reject, manual addition, ban) has
\* notified the user and answered success to the admin, which the service
\* does together, the request's session was committed.
NotifiedOnlyIfCommitted ==
    (outcome # <<>> /\ outcome[1].op \in {"approve", "reject", "add", "ban"}
        /\ outcome[1].success) => outcome[1].committed

(***************************************************************************)
(* Two user requests at once, each in its own session: the handlers of     *)
(* bot/handlers/registration.py and bot/dialogs/admin, interleaved at the   *)
(* awaits of their lookups and of the commit                                *)
(***************************************************************************)

\* The lookups a request awaits, in the order of its code.
LookupOrder(op) ==
    CASE op = "approve"  -> <<"pending", "registered">>
      [] op = "reject"   -> <<"pending">>
      [] op = "ban"      -> <<"registered">>
      [] op = "add"      -> <<"registered", "pending", "banned">>
      [] op = "register" -> <<"registered", "pending", "banned">>

\* The lookup's result makes the request return without a further lookup.
Decides(op, name, found) ==
    CASE op = "approve" -> name = "pending" /\ ~found
      [] op \in {"add", "register"} -> found
      [] OTHER -> FALSE

\* What the service answers and stages in a session that has read view.
Answer(op, db, telegram_id, username, role) ==
    CASE op = "approve"  -> approve_pending_user(db, telegram_id, role)
      [] op = "reject"   -> reject_pending_user(db, telegram_id)
      [] op = "ban"      -> ban_user(db, telegram_id)
      [] op = "add"      -> add_user_manually(db, telegram_id, username, role)
      [] op = "register" ->
            IF check_existing_user(db, telegram_id) THEN [success |-> FALSE, db |-> db]
            ELSE save_registration(db, [telegram_id |-> telegram_id, username |-> username])

EmptyDb == [registered |-> {}, pending |-> {}, banned |-> {}]

IdleRequest ==
    [pc |-> "idle", op |-> None, telegram_id |-> 0, username |-> None, role |-> None,
     next |-> 0, view |-> EmptyDb, staged |-> EmptyDb, success |-> FALSE]

\* An INSERT of the commit meets a row with its primary key or its username.
InsertConflict(rows, inserted) ==
    \E r \in inserted, q \in rows :
        r.telegram_id = q.telegram_id \/ (r.username # None /\ r.username = q.username)

\* The committed tables once a session that read view and staged `staged`
\* commits: its DELETEs (by primary key) and its INSERTs.
CommitTable(rows, seen, staged_rows) == (rows \ (seen \ staged_rows)) \cup (staged_rows \ seen)

\* A handler is entered: the user confirms the registration, or an admin
\* confirms an approval, a rejection, a manual addition or a ban.
UsersRequest(t) ==
    /\ runs[t].pc = "idle"
    /\ \E op \in {"approve", "reject", "ban", "add", "register"},
          telegram_id \in TelegramIds, username \in Usernames :
        /\ op \in {"approve", "reject", "ban"} => username = None
        /\ runs' = [runs EXCEPT ![t] =
                [IdleRequest EXCEPT !.pc = "reading", !.op = op, !.telegram_id = telegram_id,
                                    !.username = username,
                                    !.role = IF op \in {"approve", "add"}
                                             THEN "Neopredelenna" ELSE None,
                                    !.next = 1]]
    /\ UNCHANGED <<syncVars, searchVars, usersVars, dialogVars>>

\* The request after its lookup of table `name` returned the rows found.
Looked(run, name, found) ==
    LET db == [run.view EXCEPT ![name] = found]
        answer == Answer(run.op, db, run.telegram_id, run.username, run.role)
    IN  IF Decides(run.op, name, found # {}) \/ run.next = Len(LookupOrder(run.op))
        THEN [run EXCEPT !.view = db, !.pc = "answered",
                         !.success = answer.success, !.staged = answer.db]
        ELSE [run EXCEPT !.view = db, !.next = @ + 1]

\* One await of a UserDAO lookup: session.get reads the committed row.
UsersLookup(t) ==
    /\ runs[t].pc = "reading"
    /\ runs' = [runs EXCEPT ![t] =
            Looked(@, LookupOrder(@.op)[@.next],
                   {r \in Db[LookupOrder(@.op)[@.next]] : r.telegram_id = @.telegram_id})]
    /\ UNCHANGED <<syncVars, searchVars, usersVars, dialogVars>>

\* get_session: await session.commit(), or the rollback when an INSERT
\* violates a constraint.
UsersCommit(t) ==
    /\ runs[t].pc = "answered"
    /\ IF \E name \in LookupNames :
              InsertConflict(Db[name], runs[t].staged[name] \ runs[t].view[name])
       THEN /\ runs' = [runs EXCEPT ![t] = [@ EXCEPT !.pc = "failed"]]
            /\ UNCHANGED <<registered, pending, banned>>
       ELSE /\ runs' = [runs EXCEPT ![t] = [@ EXCEPT !.pc = "done"]]
            /\ registered' = CommitTable(registered, runs[t].view.registered, runs[t].staged.registered)
            /\ pending' = CommitTable(pending, runs[t].view.pending, runs[t].staged.pending)
            /\ banned' = CommitTable(banned, runs[t].view.banned, runs[t].staged.banned)
    /\ UNCHANGED <<outcome, syncVars, searchVars, dialogVars>>

NextUsersRace ==
    \E t \in Tasks :
        \/ UsersRequest(t)
        \/ UsersLookup(t)
        \/ UsersCommit(t)

InitUsersRace ==
    /\ service = "Carpet"
    /\ table = EmptyBag
    /\ pc = "idle"
    /\ values = <<>>
    /\ session = EmptyBag
    /\ result = <<>>
    /\ log = <<>>
    /\ before = EmptyBag
    /\ refetched = <<>>
    /\ rerun = FALSE
    /\ InitSearch
    /\ NoDialog
    /\ outcome = <<>>
    /\ UserTables
    /\ runs = [t \in Tasks |-> IdleRequest]

SpecUsersRace == InitUsersRace /\ [][NextUsersRace]_vars

SelectionState(filter_type) ==
    CASE filter_type = "geometry"   -> "geometry_selection"
      [] filter_type = "size"       -> "size_selection"
      [] filter_type = "color"      -> "color_selection"
      [] filter_type = "style"      -> "style_selection"
      [] filter_type = "collection" -> "collection_selection"

SelectionStates == {SelectionState(f) : f \in Facets}

\* dialog_data of a dialog just started: no key.  A missing
\* "current_filter_type" is None, a missing "<facet>_value_mapping" is {}.
EmptyDialogData ==
    [current_filter_type |-> None, value_mapping |-> [f \in Facets |-> <<>>]]

\* {str(i): opt.value for i, opt in enumerate(filter_results.options)}: the
\* short ids are the positions 0, 1, ... of the options.
ValueMapping(options) == [i \in 0..(Len(options) - 1) |-> options[i + 1].value]

\* ManagedMultiselect.set_checked(item_id, checked) is a coroutine function
\* of two arguments.  widget.set_checked(*selected_ids) raises TypeError for
\* another number of ids; for two ids it makes a coroutine the getter never
\* awaits, which checks nothing.
set_checked(selected_ids) ==
    IF Cardinality(selected_ids) = 2 THEN None ELSE "TypeError"

\* The data of the `except Exception` branch and of a missing filter_type.
ErrorView ==
    [window |-> "selection", error |-> TRUE, options |-> <<>>,
     selected_count |-> 0, total_options |-> 0]

\* filter_selection_getter once get_filter_options returned filter_results:
\* the mappings it stores in dialog_data and the data it returns.
SelectionRendered(data, current_filters, filter_type, filter_results) ==
    LET value_mapping == ValueMapping(filter_results.options)
        current_selections == current_filters[filter_type]
        selected_ids == {i \in DOMAIN value_mapping : value_mapping[i] \in current_selections}
        stored == [data EXCEPT !.value_mapping[filter_type] = value_mapping]
    IN  IF current_selections # {} /\ set_checked(selected_ids) # None
        THEN [dialog_data |-> stored, rendered |-> ErrorView]
        ELSE [dialog_data |-> stored,
              rendered |-> [window |-> "selection", error |-> FALSE,
                            options |-> [i \in 1..Len(filter_results.options) |->
                                            filter_results.options[i].value],
                            selected_count |-> Cardinality(current_selections),
                            total_options |-> Len(filter_results.options)]]

\* filter_selection_getter.
filter_selection_getter(tbl, flag, data, current_filters, gathered) ==
    IF data.current_filter_type = None
    THEN [dialog_data |-> data, rendered |-> ErrorView]
    ELSE SelectionRendered(data, current_filters, data.current_filter_type,
             get_filter_options(tbl, flag, data.current_filter_type, current_filters, gathered))

\* main_menu_getter.
main_menu_getter(tbl, flag, current_filters) ==
    [window |-> "main_menu",
     has_filters |-> \E f \in Facets : current_filters[f] # {},
     has_results |-> count_filtered_carpets(tbl, flag, current_filters) > 0]

\* results_getter.
results_getter(tbl, flag, current_filters) ==
    [window |-> "results",
     has_carpets |-> search_carpets(tbl, flag, current_filters) # {},
     total_count |-> IF search_carpets(tbl, flag, current_filters) = {} THEN 0
                     ELSE count_filtered_carpets(tbl, flag, current_filters)]

\* handle_find_carpets: dialog_manager.start(main_menu, RESET_STACK) opens a
\* new dialog context, with empty dialog_data and widget data.
HandleFindCarpets ==
    /\ dialog_state' = "main_menu"
    /\ dialog_data' = EmptyDialogData
    /\ filters' = EmptyFilters
    /\ widgets' = [f \in Facets |-> {}]
    /\ sent' = <<>>
    /\ view' = <<main_menu_getter(table, filter_available_only, EmptyFilters)>>
    /\ UNCHANGED <<filter_available_only, tasks>>
    /\ UNCHANGED <<syncVars, usersVars, runs>>

\* The facets whose button the user clicks in the main menu.
ClickedFacets == {"color", "collection"}

\* on_filter_selected of the button filter_<facet>.
OnFilterSelected ==
    /\ dialog_state = "main_menu"
    /\ \E filter_type \in ClickedFacets, gathered \in BOOLEAN :
        /\ gathered \/ filter_type = "color"
        /\ LET shown == filter_selection_getter(table, filter_available_only,
                            [dialog_data EXCEPT !.current_filter_type = filter_type],
                            filters, gathered)
           IN  /\ dialog_state' = SelectionState(filter_type)
               /\ dialog_data' = shown.dialog_data
               /\ view' = <<shown.rendered>>
    /\ sent' = <<>>
    /\ UNCHANGED <<filters, filter_available_only, widgets, tasks>>
    /\ UNCHANGED <<syncVars, usersVars, runs>>

\* A click on an item of the Multiselect of the window: the item's id is
\* checked or unchecked.
OnMultiselectClick ==
    /\ dialog_state \in SelectionStates
    /\ \E i \in 0..(Len(view[1].options) - 1), gathered \in BOOLEAN :
        /\ gathered \/ dialog_data.current_filter_type = "color"
        /\ widgets' = [widgets EXCEPT ![dialog_data.current_filter_type] =
                            IF i \in @ THEN @ \ {i} ELSE @ \cup {i}]
        /\ LET shown == filter_selection_getter(table, filter_available_only, dialog_data,
                                                filters, gathered)
           IN  /\ dialog_data' = shown.dialog_data
               /\ view' = <<shown.rendered>>
    /\ sent' = <<>>
    /\ UNCHANGED <<dialog_state, filters, filter_available_only, tasks>>
    /\ UNCHANGED <<syncVars, usersVars, runs>>

\* [value_mapping.get(id_str) for id_str in selected_ids if id_str in value_mapping].
SelectedValues(value_mapping, selected_ids) ==
    {value_mapping[i] : i \in selected_ids \cap DOMAIN value_mapping}

\* on_apply_filter.
OnApplyFilter ==
    /\ dialog_state \in SelectionStates
    /\ dialog_data.current_filter_type # None
    /\ filters' = [filters EXCEPT ![dialog_data.current_filter_type] =
                        SelectedValues(dialog_data.value_mapping[dialog_data.current_filter_type],
                                       widgets[dialog_data.current_filter_type])]
    /\ dialog_state' = "main_menu"
    /\ sent' = <<"filter_applied">>
    /\ view' = <<main_menu_getter(table, filter_available_only, filters')>>
    /\ UNCHANGED <<dialog_data, filter_available_only, widgets, tasks>>
    /\ UNCHANGED <<syncVars, usersVars, runs>>

\* on_clear_filter: the window stays and is rendered anew.
OnClearFilter ==
    /\ dialog_state \in SelectionStates
    /\ dialog_data.current_filter_type # None
    /\ filters' = clear_filter(filters, dialog_data.current_filter_type)
    /\ sent' = <<"filter_cleared">>
    /\ \E gathered \in BOOLEAN :
        /\ gathered \/ dialog_data.current_filter_type = "color"
        /\ LET shown == filter_selection_getter(table, filter_available_only, dialog_data,
                                                filters', gathered)
           IN  /\ dialog_data' = shown.dialog_data
               /\ view' = <<shown.rendered>>
    /\ UNCHANGED <<dialog_state, filter_available_only, widgets, tasks>>
    /\ UNCHANGED <<syncVars, usersVars, runs>>

\* on_clear_all_filters, of a button shown when has_filters.
OnClearAllFilters ==
    /\ dialog_state = "main_menu"
    /\ view[1].has_filters
    /\ filters' = EmptyFilters
    /\ sent' = <<"all_filters_cleared">>
    /\ view' = <<main_menu_getter(table, filter_available_only, filters')>>
    /\ UNCHANGED <<dialog_state, dialog_data, filter_available_only, widgets, tasks>>
    /\ UNCHANGED <<syncVars, usersVars, runs>>

\* SwitchTo back_to_main of a selection window, back_to_filters of the
\* results window.
BackToMenu ==
    /\ dialog_state \in SelectionStates \cup {"results"}
    /\ dialog_state' = "main_menu"
    /\ sent' = <<>>
    /\ view' = <<main_menu_getter(table, filter_available_only, filters)>>
    /\ UNCHANGED <<dialog_data, filters, filter_available_only, widgets, tasks>>
    /\ UNCHANGED <<syncVars, usersVars, runs>>

\* SwitchTo show_results, shown when has_results.
ShowResults ==
    /\ dialog_state = "main_menu"
    /\ view[1].has_results
    /\ dialog_state' = "results"
    /\ sent' = <<>>
    /\ view' = <<results_getter(table, filter_available_only, filters)>>
    /\ UNCHANGED <<dialog_data, filters, filter_available_only, widgets, tasks>>
    /\ UNCHANGED <<syncVars, usersVars, runs>>

NextDialog ==
    \/ HandleFindCarpets
    \/ OnFilterSelected
    \/ OnMultiselectClick
    \/ OnApplyFilter
    \/ OnClearFilter
    \/ OnClearAllFilters
    \/ BackToMenu
    \/ ShowResults

InitDialog ==
    /\ service = "Carpet"
    /\ table \in Catalogs
    /\ pc = "idle"
    /\ values = <<>>
    /\ session = EmptyBag
    /\ result = <<>>
    /\ log = <<>>
    /\ before = EmptyBag
    /\ refetched = <<>>
    /\ rerun = FALSE
    /\ filters = EmptyFilters
    /\ filter_available_only \in BOOLEAN
    /\ view = <<>>
    /\ registered = {} /\ pending = {} /\ banned = {}
    /\ outcome = <<>>
    /\ runs = <<>>
    /\ NoDialog

SpecDialog == InitDialog /\ [][NextDialog]_vars

(***************************************************************************)
(* Properties of the carpet search dialog                                  *)
(***************************************************************************)

\* update_filter_selection(current_filters, f, selected): the state returned
\* has selected for f and current_filters' selections for the other facets.
\* The state passed in is a value here: model_copy() gives the method an
\* object of its own, and setattr is on that object.
UpdateReturnsNewState(current_filters) ==
    \A f \in Facets : \A selected \in SUBSET Selectable(f) :
        /\ update_filter_selection(current_filters, f, selected)[f] = selected
        /\ \A g \in Facets \ {f} :
              update_filter_selection(current_filters, f, selected)[g] = current_filters[g]

MaxFrames == 5

\* len(statuses) of spinning_sync_animation.
StatusCount == 4

\* statuses[index % len(statuses)]: the text with index % 4 dots.
Status(index) == [text |-> "sync_status", dots |-> index % StatusCount]

InitialisationText == [text |-> "sync_initialisation"]

\* admin_messages.sync_error.format(error=str(e)).
SyncErrorText == [text |-> "sync_error"]

\* sync_completed_with_errors.format(...) or sync_completed.format(...) of
\* a SyncResult.
SummaryText(res) ==
    IF res.invalid_report # <<>>
    THEN [text |-> "sync_completed_with_errors", total_rows |-> res.total_rows,
          inserted |-> res.inserted, updated |-> res.updated, skipped |-> res.skipped,
          bad_data |-> res.bad_data, invalid_report |-> res.invalid_report]
    ELSE [text |-> "sync_completed", total_rows |-> res.total_rows,
          inserted |-> res.inserted, updated |-> res.updated, skipped |-> res.skipped,
          bad_data |-> res.bad_data, invalid_report |-> <<>>]

\* No task: the admin has not asked for a sync.
NoTasks == [handler |-> "idle", animation |-> "none", index |-> 0]

\* perform_sync_with_animation up to asyncio.wait: the first edit_text (the
\* exception of a refused edit is answered with the error text), then the
\* two tasks are created.
OnSyncCallback ==
    /\ tasks.handler = "idle"
    /\ \E edited \in BOOLEAN :
        IF edited
        THEN /\ sent' = <<InitialisationText>>
             /\ tasks' = [handler |-> "waiting", animation |-> "running", index |-> 0]
        ELSE /\ sent' = <<SyncErrorText>>
             /\ tasks' = [tasks EXCEPT !.handler = "not_started"]
    /\ UNCHANGED <<dialog_state, dialog_data, widgets>>
    /\ UNCHANGED <<syncVars, searchVars, usersVars, runs>>

\* One turn of the loop of spinning_sync_animation: message.edit_text, then
\* the sleep and index += 1.  An exception of edit_text other than
\* CancelledError leaves the coroutine: the task is done with it.
AnimationEdit ==
    /\ tasks.handler = "waiting"
    /\ tasks.animation = "running"
    /\ tasks.index < MaxFrames
    /\ \E edited \in BOOLEAN :
        IF edited
        THEN /\ sent' = Append(sent, Status(tasks.index))
             /\ tasks' = [tasks EXCEPT !.index = @ + 1]
        ELSE /\ sent' = sent
             /\ tasks' = [tasks EXCEPT !.animation = "raised"]
    /\ UNCHANGED <<dialog_state, dialog_data, widgets>>
    /\ UNCHANGED <<syncVars, searchVars, usersVars, runs>>

\* perform_actual_sync is running as sync_task.
SyncTaskRuns == tasks.handler = "waiting"

\* The handler from the return of asyncio.wait on: animation_task.cancel(),
\* `await animation_task` (which raises what a finished task raised, and
\* CancelledError, caught, for a task cancelled now), `await done.pop()`
\* (which raises what the sync task raised), the summary and the last
\* edit_text; `except Exception` edits the error text in.
HandlerResumes ==
    /\ tasks.handler = "waiting"
    /\ pc \in {"done", "failed"}
    /\ IF tasks.animation = "raised"
       THEN /\ sent' = Append(sent, SyncErrorText)
            /\ tasks' = [tasks EXCEPT !.handler = "done"]
       ELSE IF pc = "failed"
       THEN /\ sent' = Append(sent, SyncErrorText)
            /\ tasks' = [tasks EXCEPT !.handler = "done", !.animation = "cancelled"]
       ELSE \E edited \in BOOLEAN :
            IF edited
            THEN /\ sent' = Append(sent, SummaryText(result[1]))
                 /\ tasks' = [tasks EXCEPT !.handler = "done", !.animation = "cancelled"]
            ELSE /\ sent' = Append(sent, SyncErrorText)
                 /\ tasks' = [tasks EXCEPT !.handler = "summary_refused",
                                           !.animation = "cancelled"]
    /\ UNCHANGED <<dialog_state, dialog_data, widgets>>
    /\ UNCHANGED <<syncVars, searchVars, usersVars, runs>>

NextAnimation ==
    \/ OnSyncCallback
    \/ AnimationEdit
    \/ SyncTaskRuns /\ pc = "idle" /\ FetchSheet
    \/ SyncTaskRuns /\ Reconcile
    \/ SyncTaskRuns /\ FlushFails
    \/ SyncTaskRuns /\ DeleteMissing
    \/ SyncTaskRuns /\ DatabaseFails
    \/ SyncTaskRuns /\ Commit
    \/ HandlerResumes

InitAnimation ==
    /\ service \in {"Carpet", "Sale"}
    /\ table = EmptyBag
    /\ pc = "idle"
    /\ values = <<>>
    /\ session = EmptyBag
    /\ result = <<>>
    /\ log = <<>>
    /\ before = EmptyBag
    /\ refetched = <<>>
    /\ rerun = FALSE
    /\ InitSearch
    /\ registered = {} /\ pending = {} /\ banned = {}
    /\ outcome = <<>>
    /\ runs = <<>>
    /\ dialog_state = "<None>"
    /\ dialog_data = <<>>
    /\ widgets = <<>>
    /\ sent = <<>>
    /\ tasks = NoTasks

SpecAnimation == InitAnimation /\ [][NextAnimation]_vars

\* The texts of sent that are summaries or error texts.
IsFinalText(t) == t.text \in {"sync_completed", "sync_completed_with_errors", "sync_error"}

\* C22: when the sync task completed successfully and the last edit_text
\* of the handler was accepted, the message shows the summary of the task's
\* SyncResult and the error text was never edited in, whatever the
\* animation task did; and no status of the animation follows the final
\* text.
AnimationIsCosmetic ==
    /\ (tasks.handler = "done" /\ pc = "done") =>
          /\ sent[Len(sent)] = SummaryText(result[1])
          /\ \A i \in 1..Len(sent) : sent[i] # SyncErrorText
    /\ \A i \in 1..Len(sent) : \A j \in 1..Len(sent) :
          (i < j /\ IsFinalText(sent[i])) => sent[j].text # "sync_status"

(***************************************************************************)
(* The registration dialog: bot/dialogs/registration.py,                   *)
(* bot/handlers/registration.py, services/user_registration.  A text is a  *)
(* sequence of characters here.                                            *)
(***************************************************************************)

\* The texts a user sends to the dialog (message.text is never empty).
TextPool ==
    {<<" ", "I", "v", "a", "n">>,
     <<"L", "i">>,
     <<"i", "v", "a", "n">>,
     <<"I">>,
     <<"I", "v", "a", "n", "@", "M", "a", "i", "l", ".", "R", "U">>,
     <<"i", "v", "a", "n", "@", "m", "a", "i", "l">>,
     <<"8", " ", "(", "9", "9", "9", ")", " ", "1", "2", "3", "-", "4", "5", "-", "6", "7">>,
     <<"7", "9", "9", "9", "7", "6", "5", "4", "3", "2", "1">>,
     <<"8", "9", "9", "9">>,
     <<"a", "d">>}

\* The character classes of the patterns of core_settings, as far as the
\* characters of TextPool go (no Cyrillic letter is among them).
UpperLetters == {"I", "L", "M", "R", "U"}
LowerLetters == {"a", "d", "i", "l", "m", "n", "r", "u", "v"}
Digits == {"0", "1", "2", "3", "4", "5", "6", "7", "8", "9"}
Whitespace == {" "}

\* str.strip().
StripText(t) ==
    LET kept == {i \in 1..Len(t) : t[i] \notin Whitespace}
    IN  IF kept = {} THEN <<>>
        ELSE SubSeq(t, CHOOSE i \in kept : \A j \in kept : i <= j,
                       CHOOSE i \in kept : \A j \in kept : j <= i)

LowerChar(c) ==
    CASE c = "I" -> "i"
      [] c = "L" -> "l"
      [] c = "M" -> "m"
      [] c = "R" -> "r"
      [] c = "U" -> "u"
      [] OTHER   -> c

\* str.lower().
LowerText(t) == [i \in 1..Len(t) |-> LowerChar(t[i])]

\* NAME_PATTERN.match(v): ^[A-Z...][a-z...\-\s]*$.
NameMatches(v) ==
    /\ Len(v) >= 1
    /\ v[1] \in UpperLetters
    /\ \A i \in 2..Len(v) : v[i] \in LowerLetters \cup {"-"} \cup Whitespace

\* EMAIL_PATTERN.match(v): ^[a-zA-Z0-9._%+-]+@[a-zA-Z0-9.-]+\.[a-zA-Z]{2,}$.
EmailMatches(v) ==
    \E at \in 2..Len(v), dot \in 1..Len(v) :
        /\ v[at] = "@"
        /\ \A i \in 1..(at - 1) :
              v[i] \in UpperLetters \cup LowerLetters \cup Digits \cup {".", "_", "%", "+", "-"}
        /\ dot >= at + 2
        /\ v[dot] = "."
        /\ \A i \in (at + 1)..(dot - 1) :
              v[i] \in UpperLetters \cup LowerLetters \cup Digits \cup {".", "-"}
        /\ Len(v) - dot >= 2
        /\ \A i \in (dot + 1)..Len(v) : v[i] \in UpperLetters \cup LowerLetters

\* A str | None: the str of characters chars, or None.
Str(chars) == [is_none |-> FALSE, chars |-> chars]
NoneStr == [is_none |-> TRUE, chars |-> <<>>]

ValidationResult(is_valid, error_message, cleaned_value) ==
    [is_valid |-> is_valid, error_message |-> error_message, cleaned_value |-> cleaned_value]

Rejected(error_message) == ValidationResult(FALSE, error_message, NoneStr)

\* Field(min_length, max_length) of RegistrationData.
LengthBounds(field_name) ==
    CASE field_name \in {"first_name", "last_name"} -> <<2, 32>>
      [] field_name = "email"     -> <<5, 64>>
      [] field_name = "from_whom" -> <<3, 100>>

\* validate_names, validate_email and validate_from_whom on a value the
\* model has stripped (str_strip_whitespace) and found of a valid length.
ValidateText(field_name, v) ==
    CASE field_name \in {"first_name", "last_name"} ->
            IF NameMatches(StripText(v)) THEN ValidationResult(TRUE, None, Str(StripText(v)))
            ELSE Rejected("name_format")
      [] field_name = "email" ->
            IF EmailMatches(LowerText(StripText(v)))
            THEN ValidationResult(TRUE, None, Str(LowerText(StripText(v))))
            ELSE Rejected("email_format")
      [] field_name = "from_whom" ->
            IF Len(StripText(v)) < 3 THEN Rejected("from_whom_short")
            ELSE ValidationResult(TRUE, None, Str(StripText(v)))

\* validate_phone on the digits of the value.
PhoneOf(digits_only) ==
    IF digits_only # <<>> /\ Head(digits_only) = "8"
    THEN IF Len(digits_only) # 11 THEN Rejected("phone_digits_8")
         ELSE ValidationResult(TRUE, None, Str(<<"+", "7">> \o Tail(digits_only)))
    ELSE IF digits_only # <<>> /\ Head(digits_only) = "7"
    THEN IF Len(digits_only) # 11 THEN Rejected("phone_digits_7")
         ELSE ValidationResult(TRUE, None, Str(<<"+">> \o digits_only))
    ELSE Rejected("phone_start")

\* validate_phone: PHONE_DIGITS_PATTERN.sub("", ...) keeps the digits.
validate_phone(input_value) ==
    IF StripText(input_value) = <<>> THEN ValidationResult(TRUE, None, NoneStr)
    ELSE PhoneOf(SelectSeq(StripText(input_value), LAMBDA c : c \in Digits))

\* RegistrationService.validate_field: RegistrationData of the value and of
\* valid values for the other fields; the error of the field, or the
\* field's value of the model.
validate_field(field_name, value) ==
    IF field_name = "phone" THEN validate_phone(value)
    ELSE IF Len(StripText(value)) < LengthBounds(field_name)[1] THEN Rejected("string_too_short")
    ELSE IF Len(StripText(value)) > LengthBounds(field_name)[2] THEN Rejected("string_too_long")
    ELSE ValidateText(field_name, StripText(value))

\* DIALOG_STRUCTURE: the fields in the order of their windows.
DialogFields == <<"first_name", "last_name", "email", "phone", "from_whom">>

\* The states of RegistrationStatesGroup in their order.
RegistrationStates == DialogFields \o <<"confirmation">>

StateIndex(state) == CHOOSE i \in 1..Len(RegistrationStates) : RegistrationStates[i] = state

\* normalize of the window of the field: str.lower for the email.
Normalized(field_name, value) == IF field_name = "email" THEN LowerText(value) ELSE value

\* dialog_data of a dialog just started: no key (<<>> for a missing key).
NoRegistrationData ==
    [username |-> <<>>, first_name |-> <<>>, last_name |-> <<>>, email |-> <<>>,
     phone |-> <<>>, from_whom |-> <<>>]

\* The user of the dialog.
Registrant == 1

\* start_registration_dialog.
StartRegistrationDialog ==
    /\ dialog_state = "<None>"
    /\ IF check_existing_user(Db, Registrant)
       THEN /\ sent' = <<[text |-> "status_message", error_message |-> None]>>
            /\ UNCHANGED <<dialog_state, dialog_data>>
       ELSE /\ sent' = <<>>
            /\ dialog_state' = "first_name"
            /\ dialog_data' = NoRegistrationData
    /\ UNCHANGED <<widgets, tasks>>
    /\ UNCHANGED <<syncVars, searchVars, usersVars, runs>>

FieldHandledStores(state, data, field_name, username, validation) ==
    [dialog_state |-> RegistrationStates[StateIndex(state) + 1],
     dialog_data |-> [data EXCEPT ![field_name] = <<validation.cleaned_value>>],
     sent |-> <<>>]

\* What RegistrationFieldHandler.__call__ does with the validation of the
\* text: the state, dialog_data and the answer after it.
FieldHandled(state, data, field_name, username, validation) ==
    IF ~validation.is_valid
    THEN [dialog_state |-> state, dialog_data |-> data,
          sent |-> <<[text |-> "validation_error", error_message |-> validation.error_message]>>]
    ELSE [dialog_state |-> RegistrationStates[StateIndex(state) + 1],
          dialog_data |-> IF field_name = "first_name"
                          THEN [data EXCEPT !.first_name = <<validation.cleaned_value>>,
                                            !.username = <<username>>]
                          ELSE [data EXCEPT ![field_name] = <<validation.cleaned_value>>],
          sent |-> <<>>]

\* RegistrationFieldHandler.__call__ of the window the dialog is in.
FieldInput ==
    /\ dialog_state \in {DialogFields[i] : i \in 1..Len(DialogFields)}
    /\ \E text \in TextPool, username \in Usernames :
        LET handled == FieldHandled(dialog_state, dialog_data, dialog_state, username,
                           validate_field(dialog_state,
                                          Normalized(dialog_state, StripText(text))))
        IN  /\ dialog_state' = handled.dialog_state
            /\ dialog_data' = handled.dialog_data
            /\ sent' = handled.sent
    /\ UNCHANGED <<widgets, tasks>>
    /\ UNCHANGED <<syncVars, searchVars, usersVars, runs>>

\* reject_non_text: a message that is no text.
RejectNonText ==
    /\ dialog_state \in {DialogFields[i] : i \in 1..Len(DialogFields)}
    /\ sent' = <<[text |-> "non_text_error", error_message |-> None]>>
    /\ UNCHANGED <<dialog_state, dialog_data, widgets, tasks>>
    /\ UNCHANGED <<syncVars, searchVars, usersVars, runs>>

\* skip_phone_handler, of the button of the phone window.
SkipPhone ==
    /\ dialog_state = "phone"
    /\ dialog_data' = [dialog_data EXCEPT !.phone = <<NoneStr>>]
    /\ dialog_state' = "from_whom"
    /\ sent' = <<>>
    /\ UNCHANGED <<widgets, tasks>>
    /\ UNCHANGED <<syncVars, searchVars, usersVars, runs>>

\* The Back button of a window that has a window before it.
BackButton ==
    /\ dialog_state \in {RegistrationStates[i] : i \in 2..Len(RegistrationStates)}
    /\ dialog_state' = RegistrationStates[StateIndex(dialog_state) - 1]
    /\ sent' = <<>>
    /\ UNCHANGED <<dialog_data, widgets, tasks>>
    /\ UNCHANGED <<syncVars, searchVars, usersVars, runs>>

\* The Cancel button: the dialog is closed and its data dropped.
CancelButton ==
    /\ dialog_state # "<None>"
    /\ dialog_state' = "<None>"
    /\ dialog_data' = <<>>
    /\ sent' = <<>>
    /\ UNCHANGED <<widgets, tasks>>
    /\ UNCHANGED <<syncVars, searchVars, usersVars, runs>>

NextRegistration ==
    \/ StartRegistrationDialog
    \/ FieldInput
    \/ RejectNonText
    \/ SkipPhone
    \/ BackButton
    \/ CancelButton

InitRegistration ==
    /\ service = "Carpet"
    /\ table = EmptyBag
    /\ pc = "idle"
    /\ values = <<>>
    /\ session = EmptyBag
    /\ result = <<>>
    /\ log = <<>>
    /\ before = EmptyBag
    /\ refetched = <<>>
    /\ rerun = FALSE
    /\ InitSearch
    /\ registered = {}
    /\ pending \in {{}, {PendingUser(Registrant, None)}}
    /\ banned = {}
    /\ outcome = <<>>
    /\ runs = <<>>
    /\ NoDialog

SpecRegistration == InitRegistration /\ [][NextRegistration]_vars

\* The value is one validate_field accepts for the field and returns as it is.
Validated(field_name, stored) ==
    /\ ~stored.is_none
    /\ validate_field(field_name, stored.chars).is_valid
    /\ validate_field(field_name, stored.chars).cleaned_value = stored

RequiredFields == {"first_name", "last_name", "email", "from_whom"}

\* C23: a step that answers a text with a validation error leaves the
\* dialog state and dialog_data as they were; a step from the window of a
\* required field to the next window stores a validated value for the
\* field; and in the confirmation state every required field is stored as a
\* validated value (the phone as one, or as None).
InputStoredOnlyIfValid ==
    [][/\ (sent' # <<>> /\ sent'[1].text = "validation_error") =>
             /\ dialog_state' = dialog_state
             /\ dialog_data' = dialog_data
       /\ (dialog_state \in RequiredFields /\ dialog_state' \notin {dialog_state, "<None>"}
              /\ StateIndex(dialog_state') > StateIndex(dialog_state)) =>
             /\ dialog_data'[dialog_state] # <<>>
             /\ Validated(dialog_state, dialog_data'[dialog_state][1])
       /\ dialog_state' = "confirmation" =>
             /\ \A f \in RequiredFields :
                   dialog_data'[f] # <<>> /\ Validated(f, dialog_data'[f][1])
             /\ dialog_data'.phone # <<>>
             /\ dialog_data'.phone[1].is_none \/ Validated("phone", dialog_data'.phone[1])]_vars

\* The user went back from the confirmation and sent a text the e-mail
\* window rejected: the e-mail stored before is still there.
InputStoredOnlyIfValidWitness ==
    /\ dialog_state = "email"
    /\ sent # <<>>
    /\ sent[1].text = "validation_error"
    /\ dialog_data.from_whom # <<>>
    /\ dialog_data.email = <<Str(<<"i", "v", "a", "n", "@", "m", "a", "i", "l", ".", "r", "u">>)>>

====
